---- MODULE Spec2Model ----
(***************************************************************************)
(* A model of the Zeus Tips bot (src/bot.py, src/database.py,              *)
(* src/api_integrations.py): the sqlite store, the scheduled jobs and the  *)
(* command handlers, as state machines whose steps are the stretches of    *)
(* code between two suspending awaits.                                     *)
(*                                                                         *)
(* Texts are TLA+ strings; money and confidence are integers in hundredths *)
(* (odd 1.80 is 180, confidence 0.75 is 75).                               *)
(***************************************************************************)
EXTENDS Integers, Sequences, FiniteSets, TLC

(***************************************************************************)
(* Bounds of the model.                                                    *)
(***************************************************************************)
\* Number of rows of predictions_history a run of the model may hold.
MaxPred == 2
\* Number of fixtures the data provider knows (fixture ids 1..NFix).
NFix == 2
\* Number of users (user ids 1..NUsers).
NUsers == 2
\* Number of times the clock advances.
MaxTicks == 2
\* Number of league and cup matches the provider knows (match ids 1..MaxGames).
MaxGames == 6
\* Number of these matches (ids 1..MaxDay) a day's list is drawn from when
\* every answer of the statistics calls and of the AI is drawn for each.
MaxDay == 3
\* Number of generation runs (daily and live together).
MaxRuns == 1
\* Number of goals a side scores in the results evaluate_prediction is called on.
MaxGoals == 3

(***************************************************************************)
(* Python values.                                                          *)
(***************************************************************************)
\* None, for the values the code compares with `if x` / `if not x`.
None == "None"
\* A goal count the provider left null ("home_goals": None).
NoGoals == -1

(***************************************************************************)
(* Text helpers: str.lower, str.strip, str.split, `in`, re.search.         *)
(***************************************************************************)
UpperChars == "ABCDEFGHIJKLMNOPQRSTUVWXYZÃÓ"
LowerChars == "abcdefghijklmnopqrstuvwxyzãó"

Char(s, i) == SubSeq(s, i, i)

LowerChar(c) ==
    IF \E i \in 1..Len(UpperChars) : Char(UpperChars, i) = c
    THEN Char(LowerChars, CHOOSE i \in 1..Len(UpperChars) : Char(UpperChars, i) = c)
    ELSE c

RECURSIVE Lower(_)
Lower(s) == IF Len(s) = 0 THEN "" ELSE LowerChar(Char(s, 1)) \o Lower(SubSeq(s, 2, Len(s)))

IsSpace(c) == c = " "
IsDigit(c) == \E i \in 1..10 : Char("0123456789", i) = c
DigitVal(c) == (CHOOSE i \in 1..10 : Char("0123456789", i) = c) - 1

RECURSIVE Strip(_)
Strip(s) ==
    IF Len(s) = 0 THEN ""
    ELSE IF IsSpace(Char(s, 1)) THEN Strip(SubSeq(s, 2, Len(s)))
    ELSE IF IsSpace(Char(s, Len(s))) THEN Strip(SubSeq(s, 1, Len(s) - 1))
    ELSE s

\* sub in s
Contains(s, sub) ==
    \E i \in 1..(Len(s) - Len(sub) + 1) : SubSeq(s, i, i + Len(sub) - 1) = sub

\* First index >= i of s that holds no space (Len(s) + 1 when there is none).
RECURSIVE SkipSpaces(_, _)
SkipSpaces(s, i) ==
    IF i <= Len(s) /\ IsSpace(Char(s, i)) THEN SkipSpaces(s, i + 1) ELSE i

\* First index >= i of s that holds no digit.
RECURSIVE SkipDigits(_, _)
SkipDigits(s, i) ==
    IF i <= Len(s) /\ IsDigit(Char(s, i)) THEN SkipDigits(s, i + 1) ELSE i

\* s.split(): the maximal runs of non-space characters.
RECURSIVE SplitFrom(_, _, _)
SplitFrom(s, i, word) ==
    IF i > Len(s) THEN (IF word = "" THEN <<>> ELSE <<word>>)
    ELSE IF IsSpace(Char(s, i))
         THEN (IF word = "" THEN <<>> ELSE <<word>>) \o SplitFrom(s, i + 1, "")
         ELSE SplitFrom(s, i + 1, word \o Char(s, i))

Split(s) == SplitFrom(s, 1, "")

RECURSIVE ToNat(_)
ToNat(digits) ==
    IF Len(digits) = 0 THEN 0
    ELSE 10 * ToNat(SubSeq(digits, 1, Len(digits) - 1)) + DigitVal(Char(digits, Len(digits)))

RECURSIVE Pow10(_)
Pow10(n) == IF n = 0 THEN 1 ELSE 10 * Pow10(n - 1)

\* The positions where  kw\s*\d  matches: re.search takes the leftmost.
LineMatches(s, kw) ==
    { p \in 1..Len(s) :
        /\ p + Len(kw) - 1 <= Len(s)
        /\ SubSeq(s, p, p + Len(kw) - 1) = kw
        /\ LET j == SkipSpaces(s, p + Len(kw)) IN j <= Len(s) /\ IsDigit(Char(s, j)) }

\* float(group(1).replace(",", ".")) of  kw\s*(\d+[.,]?\d*) : the number
\* num / scale.  Only used where LineMatches(s, kw) is not empty.
LineOf(s, kw) ==
    LET p == CHOOSE q \in LineMatches(s, kw) : \A r \in LineMatches(s, kw) : q <= r
        j == SkipSpaces(s, p + Len(kw))
        k == SkipDigits(s, j)
        hasSep == k <= Len(s) /\ Char(s, k) \in {".", ","}
        m == IF hasSep THEN SkipDigits(s, k + 1) ELSE k
        frac == IF hasSep THEN SubSeq(s, k + 1, m - 1) ELSE ""
    IN [num |-> ToNat(SubSeq(s, j, k - 1)) * Pow10(Len(frac)) + ToNat(frac),
        scale |-> Pow10(Len(frac))]

(***************************************************************************)
(* evaluate_prediction (src/bot.py).  fixture_result is a record           *)
(* [status_short, home_goals, away_goals, home_team, away_team].           *)
(***************************************************************************)
OrZero(g) == IF g = NoGoals THEN 0 ELSE g

\* A variant that looks for the whole name of the team.
Mentions_whole_name(pred_lower, team) == Contains(pred_lower, Lower(team))

\* any(w in pred_lower for w in team.lower().split() if len(w) > 3)
Mentions(pred_lower, team) ==
    LET words == Split(Lower(team))
    IN \E i \in 1..Len(words) : Len(words[i]) > 3 /\ Contains(pred_lower, words[i])

\* A variant that counts a total equal to the line as over it.
Exceeds_or_equals(total_goals, line) == total_goals * line.scale >= line.num

\* A variant that looks for the draw keywords before the over and under lines.
evaluate_prediction_draw_first(prediction_text, fixture_result) ==
    LET home_goals == OrZero(fixture_result.home_goals)
        away_goals == OrZero(fixture_result.away_goals)
        total_goals == home_goals + away_goals
        pred_lower == Strip(Lower(prediction_text))
        pred_mentions_home == Mentions(pred_lower, fixture_result.home_team)
        pred_mentions_away == Mentions(pred_lower, fixture_result.away_team)
        Verdict(b) == IF b THEN "green" ELSE "red"
    IN  IF Contains(pred_lower, "empate") \/ Contains(pred_lower, "draw")
        THEN Verdict(home_goals = away_goals)
        ELSE IF LineMatches(pred_lower, "over") # {}
        THEN Verdict(total_goals * LineOf(pred_lower, "over").scale
                        > LineOf(pred_lower, "over").num)
        ELSE IF LineMatches(pred_lower, "under") # {}
        THEN Verdict(total_goals * LineOf(pred_lower, "under").scale
                        < LineOf(pred_lower, "under").num)
        ELSE IF Contains(pred_lower, "ambas marcam") \/ Contains(pred_lower, "btts")
        THEN IF Contains(pred_lower, "não") \/ Contains(pred_lower, "no")
             THEN Verdict(home_goals = 0 \/ away_goals = 0)
             ELSE Verdict(home_goals > 0 /\ away_goals > 0)
        ELSE IF pred_mentions_home /\ ~pred_mentions_away
        THEN Verdict(home_goals > away_goals)
        ELSE IF pred_mentions_away /\ ~pred_mentions_home
        THEN Verdict(away_goals > home_goals)
        ELSE "red"

\* A variant that takes the home side when the text names both sides.
evaluate_prediction_home_first(prediction_text, fixture_result) ==
    LET home_goals == OrZero(fixture_result.home_goals)
        away_goals == OrZero(fixture_result.away_goals)
        total_goals == home_goals + away_goals
        pred_lower == Strip(Lower(prediction_text))
        pred_mentions_home == Mentions(pred_lower, fixture_result.home_team)
        pred_mentions_away == Mentions(pred_lower, fixture_result.away_team)
        Verdict(b) == IF b THEN "green" ELSE "red"
    IN  IF LineMatches(pred_lower, "over") # {}
        THEN Verdict(total_goals * LineOf(pred_lower, "over").scale
                        > LineOf(pred_lower, "over").num)
        ELSE IF LineMatches(pred_lower, "under") # {}
        THEN Verdict(total_goals * LineOf(pred_lower, "under").scale
                        < LineOf(pred_lower, "under").num)
        ELSE IF Contains(pred_lower, "ambas marcam") \/ Contains(pred_lower, "btts")
        THEN IF Contains(pred_lower, "não") \/ Contains(pred_lower, "no")
             THEN Verdict(home_goals = 0 \/ away_goals = 0)
             ELSE Verdict(home_goals > 0 /\ away_goals > 0)
        ELSE IF Contains(pred_lower, "empate") \/ Contains(pred_lower, "draw")
        THEN Verdict(home_goals = away_goals)
        ELSE IF pred_mentions_home
        THEN Verdict(home_goals > away_goals)
        ELSE IF pred_mentions_away
        THEN Verdict(away_goals > home_goals)
        ELSE "red"

\* total_goals > line, total_goals < line
Exceeds(total_goals, line) == total_goals * line.scale > line.num
Below(total_goals, line) == total_goals * line.scale < line.num

evaluate_prediction(prediction_text, fixture_result) ==
    LET home_goals == OrZero(fixture_result.home_goals)
        away_goals == OrZero(fixture_result.away_goals)
        total_goals == home_goals + away_goals
        pred_lower == Strip(Lower(prediction_text))
        pred_mentions_home == Mentions(pred_lower, fixture_result.home_team)
        pred_mentions_away == Mentions(pred_lower, fixture_result.away_team)
        Verdict(b) == IF b THEN "green" ELSE "red"
    IN  IF LineMatches(pred_lower, "over") # {}
        THEN LET line == LineOf(pred_lower, "over")
             IN Verdict(Exceeds(total_goals, line))
        ELSE IF LineMatches(pred_lower, "under") # {}
        THEN LET line == LineOf(pred_lower, "under")
             IN Verdict(Below(total_goals, line))
        ELSE IF Contains(pred_lower, "ambas marcam") \/ Contains(pred_lower, "btts")
        THEN IF Contains(pred_lower, "não") \/ Contains(pred_lower, "no")
             THEN Verdict(home_goals = 0 \/ away_goals = 0)
             ELSE Verdict(home_goals > 0 /\ away_goals > 0)
        ELSE IF Contains(pred_lower, "empate") \/ Contains(pred_lower, "draw")
        THEN Verdict(home_goals = away_goals)
        ELSE IF /\ \/ Contains(pred_lower, "vitória") \/ Contains(pred_lower, "vencer")
                   \/ Contains(pred_lower, "win") \/ Contains(pred_lower, "ganha")
                /\ pred_mentions_home /\ ~pred_mentions_away
        THEN Verdict(home_goals > away_goals)
        ELSE IF /\ \/ Contains(pred_lower, "vitória") \/ Contains(pred_lower, "vencer")
                   \/ Contains(pred_lower, "win") \/ Contains(pred_lower, "ganha")
                /\ pred_mentions_away /\ ~pred_mentions_home
        THEN Verdict(away_goals > home_goals)
        ELSE IF pred_mentions_home /\ ~pred_mentions_away
        THEN Verdict(home_goals > away_goals)
        ELSE IF pred_mentions_away /\ ~pred_mentions_home
        THEN Verdict(away_goals > home_goals)
        ELSE "red"

(***************************************************************************)
(* The state.                                                              *)
(***************************************************************************)
VARIABLES
    VIP_CHANNEL_ID_ENV, \* os.getenv("VIP_CHANNEL_ID"): None or a text; never changes
    setting,            \* bot_settings row VIP_CHANNEL_ID: None (no row) or its text
    predictions,        \* predictions_history: the row with id k is predictions[k]
    subscribers,        \* subscribers: the row of user u, or NoRow
    now,                \* the clock (datetime.now()), in days
    provider,           \* the data provider: provider[f] is what it has on fixture f
    cr,                 \* the check_results runs: the scheduled job and the admin's
    writes,             \* observer: update_prediction_result calls, per row id
    notified,           \* observer: GREEN/RED messages delivered to the channel, per row id
    user_data,          \* context.user_data of user u: current_payment_id, current_plan
    payments,           \* the payment provider: status of the payment user u's data names
    chat,               \* the channel: chat[u] is the member status of user u
    exp,                \* the check_subscriptions_expiration run
    vip,                \* the check_vip_members run
    expNotices,         \* observer: expiration notices delivered, per user
    daily,              \* the send_daily_predictions run
    live,               \* the send_live_predictions run
    runs,               \* the number of generation runs still to start
    delivered,          \* observer: prediction messages delivered to the channel, per fixture
    evaluation,         \* a call of evaluate_prediction: its arguments and what it returned
    summary,            \* the last daily summary delivered to the channel
    command,            \* the command update being handled: who sent it, and the reply
    classification      \* a call of classify_odd: its argument and what it returned

storeVars == <<VIP_CHANNEL_ID_ENV, setting, predictions, subscribers>>
reconVars == <<provider, cr, writes, notified>>
subVars == <<now, user_data, payments, chat, exp, vip, expNotices>>
genVars == <<daily, live, runs, delivered>>
callVars == <<evaluation, classification, summary, command>>
vars == <<storeVars, reconVars, subVars, genVars, callVars>>

(***************************************************************************)
(* get_vip_channel_id_from_db.  The jobs only test the id with `if not     *)
(* vip_channel_id`, which None and 0 both fail: 0 stands for both.         *)
(***************************************************************************)
NoChannel == 0

\* int(text) succeeds: an optional sign and at least one digit, digits only.
IsIntText(s) ==
    LET d == IF Len(s) > 0 /\ Char(s, 1) \in {"-", "+"} THEN SubSeq(s, 2, Len(s)) ELSE s
    IN Len(d) > 0 /\ \A i \in 1..Len(d) : IsDigit(Char(d, i))

ToInt(s) ==
    IF Char(s, 1) = "-" THEN 0 - ToNat(SubSeq(s, 2, Len(s)))
    ELSE IF Char(s, 1) = "+" THEN ToNat(SubSeq(s, 2, Len(s)))
    ELSE ToNat(s)

\* `if x` of a text or None
Truthy(s) == s # None /\ s # ""

\* The text get_vip_channel_id_from_db ends up with, which it also stores when
\* it fell back on the environment variable.
ChannelText(stored, env) == IF ~Truthy(stored) /\ Truthy(env) THEN env ELSE stored

\* set_setting("VIP_CHANNEL_ID", ...) of the fallback branch
SettingAfterRead(stored, env) == IF ~Truthy(stored) /\ Truthy(env) THEN env ELSE stored

get_vip_channel_id_from_db(stored, env) ==
    LET t == ChannelText(stored, env)
    IN IF Truthy(t) /\ IsIntText(t) THEN ToInt(t) ELSE NoChannel

(***************************************************************************)
(* The data provider (get_fixture_result).  For each fixture the provider  *)
(* has no result ("absent"), fails (the query raises, "error"), reports a  *)
(* match not yet over ("live") or a match that is over ("finished"), and a *)
(* finished match stays finished.                                          *)
(***************************************************************************)
Fixtures == 1..NFix
ProviderStates == {"absent", "error", "live", "finished"}

\* A variant that takes a match in play for a match that is over.
TerminalStatuses_withInPlay == {"FT", "AET", "PEN", "1H", "2H"}

\* status not in ["FT", "AET", "PEN"]
TerminalStatuses == {"FT", "AET", "PEN"}

\* What the provider has on fixture id f: nothing on an id it does not know.
ProviderState(prov, f) == IF f \in DOMAIN prov THEN prov[f] ELSE "absent"

HomeTeam(f) == IF f % 2 = 1 THEN "Flamengo RJ" ELSE "Arsenal"
AwayTeam(f) == IF f % 2 = 1 THEN "Santos FC" ELSE "Chelsea"
FinalHomeGoals(f) == IF f % 2 = 1 THEN 2 ELSE 1
FinalAwayGoals(f) == IF f % 2 = 1 THEN 1 ELSE NoGoals
FinalStatus(f) == IF f % 3 = 1 THEN "FT" ELSE IF f % 3 = 2 THEN "PEN" ELSE "AET"
LiveStatus(f) == IF f % 2 = 1 THEN "NS" ELSE "2H"

\* What get_fixture_result returns when it has nothing (None, or an empty dict).
NoResult == [absent |-> TRUE]

\* What get_fixture_result(f) returns when it does not raise: nothing, or the
\* fixture's status, score and teams.
get_fixture_result(prov, f) ==
    IF ProviderState(prov, f) = "absent" THEN NoResult
    ELSE [status_short |-> IF prov[f] = "finished" THEN FinalStatus(f) ELSE LiveStatus(f),
          home_goals |-> IF prov[f] = "finished" THEN FinalHomeGoals(f) ELSE NoGoals,
          away_goals |-> IF prov[f] = "finished" THEN FinalAwayGoals(f) ELSE NoGoals,
          home_team |-> HomeTeam(f),
          away_team |-> AwayTeam(f)]

ProviderUpdate(f, s) ==
    /\ provider[f] # "finished"
    /\ provider[f] # s
    /\ provider' = [provider EXCEPT ![f] = s]
    /\ UNCHANGED <<callVars, storeVars, cr, writes, notified, subVars, genVars>>

(***************************************************************************)
(* The store: predictions_history.                                         *)
(***************************************************************************)
RowIds == 1..Len(predictions)

\* SELECT id, fixture_id, ..., prediction, ..., suggested_odd, ... WHERE result = 'pending'
RECURSIVE PendingFrom(_, _)
PendingFrom(rows, k) ==
    IF k > Len(rows) THEN <<>>
    ELSE (IF rows[k].result = "pending"
          THEN << [id |-> k, fixture_id |-> rows[k].fixture_id,
                   prediction |-> rows[k].prediction,
                   suggested_odd |-> rows[k].suggested_odd] >>
          ELSE <<>>) \o PendingFrom(rows, k + 1)

\* A variant that lists every row, whatever its result.
get_pending_predictions_unfiltered(rows) ==
    [k \in 1..Len(rows) |->
        [id |-> k, fixture_id |-> rows[k].fixture_id, prediction |-> rows[k].prediction,
         suggested_odd |-> rows[k].suggested_odd]]

get_pending_predictions(rows) == PendingFrom(rows, 1)

\* A variant that also clears the confidence of the row.
update_prediction_result_and_confidence(rows, prediction_id, result) ==
    [rows EXCEPT ![prediction_id].result = result, ![prediction_id].confidence = 0]

\* UPDATE predictions_history SET result = ? WHERE id = ?
update_prediction_result(rows, prediction_id, result) ==
    [rows EXCEPT ![prediction_id].result = result]

\* The prediction texts of the stored rows of the model, by fixture.
PredictionFor(f) == IF f % 2 = 1 THEN "Over 2.5 gols" ELSE "Vitória do Chelsea"
StoredTexts == {PredictionFor(f) : f \in 0..NFix}

\* evaluate_prediction(prediction_text, fixture_result) for the texts of the
\* stored rows and the results of the finished fixtures, computed once.
Evaluations ==
    [t \in StoredTexts, f \in Fixtures |->
        evaluate_prediction(t, get_fixture_result([g \in Fixtures |-> "finished"], f))]

(***************************************************************************)
(* check_results.  The code suspends only at `await send_message` and at   *)
(* `await asyncio.sleep(2)`, both after a row was resolved: from the start *)
(* of a run, or from a wake-up, it runs without suspending through every   *)
(* row it skips, up to the next row it resolves, the end of the list, or   *)
(* an exception of the provider query, which nothing in the loop catches.  *)
(***************************************************************************)
Runners == {"job", "admin"}

IdleRun == [pc |-> "idle", chan |-> NoChannel, pending |-> <<>>, i |-> 0,
            queried |-> {}, raised |-> FALSE]

\* A variant that skips no row.
Unreconcilable_never(fixture_id) == FALSE

\* `if not fixture_id`: the row has no fixture id (NULL or 0) and is skipped.
Unreconcilable(fixture_id) == fixture_id = 0

\* The loop from position i on: where it stops and why.
RECURSIVE Scan(_, _, _, _)
Scan(pending, i, prov, queried) ==
    IF i > Len(pending) THEN [kind |-> "end", i |-> i, queried |-> queried, result |-> None]
    ELSE LET pred_row == pending[i]
             fixture_id == pred_row.fixture_id
             fixture_result == get_fixture_result(prov, fixture_id)
         IN IF Unreconcilable(fixture_id)
            THEN Scan(pending, i + 1, prov, queried)
            ELSE IF ProviderState(prov, fixture_id) = "error"
            THEN [kind |-> "raise", i |-> i,
                  queried |-> queried \cup {pred_row.id}, result |-> None]
            ELSE IF fixture_result = NoResult
            THEN Scan(pending, i + 1, prov, queried \cup {pred_row.id})
            ELSE IF fixture_result.status_short \notin TerminalStatuses
            THEN Scan(pending, i + 1, prov, queried \cup {pred_row.id})
            ELSE [kind |-> "resolve", i |-> i,
                  queried |-> queried \cup {pred_row.id},
                  result |-> Evaluations[pred_row.prediction, fixture_id]]

\* One stretch of the loop of run w, from position i of its list.  A run that
\* reached the end of its list leaves nothing behind (IdleRun); a run that the
\* provider's exception ended is kept as it was when it died, with raised set.
RunFrom(w, chan, pending, i, queried) ==
    LET s == Scan(pending, i, provider, queried)
        run == [pc |-> "idle", chan |-> chan, pending |-> pending, i |-> s.i,
                queried |-> s.queried, raised |-> FALSE]
    IN IF s.kind = "resolve"
       THEN /\ predictions' = update_prediction_result(predictions, pending[s.i].id, s.result)
            /\ writes' = [writes EXCEPT ![pending[s.i].id] = @ + 1]
            /\ cr' = [cr EXCEPT ![w] =
                        [run EXCEPT !.pc = IF chan # NoChannel THEN "send" ELSE "sleep"]]
       ELSE /\ cr' = [cr EXCEPT ![w] =
                        IF s.kind = "raise" THEN [run EXCEPT !.raised = TRUE] ELSE IdleRun]
            /\ UNCHANGED <<predictions, writes>>

\* The run starts: the channel id, the pending rows, and the loop's first stretch.
check_results_start(w) ==
    /\ cr[w].pc = "idle"
    /\ setting' = SettingAfterRead(setting, VIP_CHANNEL_ID_ENV)
    /\ LET pending == get_pending_predictions(predictions)
       IN IF pending = <<>>
          THEN /\ cr' = [cr EXCEPT ![w] = IdleRun]
               /\ UNCHANGED <<predictions, writes>>
          ELSE RunFrom(w, get_vip_channel_id_from_db(setting, VIP_CHANNEL_ID_ENV),
                       pending, 1, {})
    /\ UNCHANGED <<evaluation, classification, summary, VIP_CHANNEL_ID_ENV, subscribers, provider, notified,
                   subVars, genVars>>

\* profit = suggested_odd - 1 if suggested_odd else 0: the profit that the
\* GREEN message states, in hundredths of a unit.
green_profit(suggested_odd) == IF suggested_odd # 0 THEN suggested_odd - 100 ELSE 0

\* send_message returns or raises (caught and logged); then the run sleeps.
check_results_sent(w) ==
    /\ cr[w].pc = "send"
    /\ \E ok \in BOOLEAN :
        notified' = [notified EXCEPT ![cr[w].pending[cr[w].i].id] = @ + (IF ok THEN 1 ELSE 0)]
    /\ cr' = [cr EXCEPT ![w].pc = "sleep"]
    /\ UNCHANGED <<callVars, storeVars, provider, writes, subVars, genVars>>

\* asyncio.sleep(2) is over: the loop goes on with the next row.
check_results_wake(w) ==
    /\ cr[w].pc = "sleep"
    /\ RunFrom(w, cr[w].chan, cr[w].pending, cr[w].i + 1, cr[w].queried)
    /\ UNCHANGED <<callVars, VIP_CHANNEL_ID_ENV, setting, subscribers, provider, notified, subVars, genVars>>

(***************************************************************************)
(* The store: subscribers.  Times are whole days; "%Y-%m-%d %H:%M:%S"      *)
(* texts of such times order as the times do.                              *)
(***************************************************************************)
Users == 1..NUsers
ADMIN_USER_ID == 1

NoRow == [absent |-> TRUE]
HasRow(u) == subscribers[u] # NoRow

\* A variant that keeps the row a user already has (INSERT OR IGNORE).
add_subscriber_or_ignore(rows, user_id, plan, end_date, start_date) ==
    IF rows[user_id] # NoRow THEN rows
    ELSE [rows EXCEPT ![user_id] =
            [start_date |-> start_date, end_date |-> end_date, plan |-> plan,
             status |-> "active"]]

\* INSERT OR REPLACE INTO subscribers ... VALUES (?, ?, start_date, ?, ?, 'active')
add_subscriber(rows, user_id, plan, end_date, start_date) ==
    [rows EXCEPT ![user_id] =
        [start_date |-> start_date, end_date |-> end_date, plan |-> plan, status |-> "active"]]

\* UPDATE subscribers SET status = ? WHERE user_id = ?
update_subscriber_status(rows, user_id, status) ==
    IF rows[user_id] = NoRow THEN rows ELSE [rows EXCEPT ![user_id].status = status]

\* The rows of subscribers from user_id u on, in user_id order.
RECURSIVE RowsFrom(_, _)
RowsFrom(rows, u) ==
    IF u > NUsers THEN <<>>
    ELSE (IF rows[u] # NoRow
          THEN << [user_id |-> u, end_date |-> rows[u].end_date, status |-> rows[u].status] >>
          ELSE <<>>) \o RowsFrom(rows, u + 1)

\* A variant that lists every row, whatever its status.
get_all_active_subscribers_unfiltered(rows) == RowsFrom(rows, 1)

\* SELECT user_id, end_date FROM subscribers WHERE status = 'active'
get_all_active_subscribers(rows) ==
    LET active(r) == r.status = "active" IN SelectSeq(RowsFrom(rows, 1), active)

\* SELECT user_id, status FROM subscribers
get_all_subscribers(rows) == RowsFrom(rows, 1)

(***************************************************************************)
(* The payment flow: button_callback_handler (a plan button of /assinar)   *)
(* and status_command (/status).                                           *)
(***************************************************************************)
Plans == {"plan_mensal", "plan_trimestral", "plan_vitalicio"}

duration_days(plan) ==
    CASE plan = "plan_mensal" -> 30
      [] plan = "plan_trimestral" -> 90
      [] plan = "plan_vitalicio" -> 36500

\* user_data of a user who chose no plan yet; payments[u] is the status the
\* payment provider reports for the payment user_data[u].current_payment_id
\* names (the only payment of the user the bot ever asks about).
NoUserData == [current_payment_id |-> 0, current_plan |-> None]
PaymentStatuses == {"pending", "approved", "rejected"}

\* A plan button: create_payment succeeds (the payment is pending at the
\* provider and user_data holds its id and the plan) or fails (an error text).
button_callback_handler(u, plan) ==
    /\ \/ /\ payments' = [payments EXCEPT ![u] = "pending"]
          /\ user_data' = [user_data EXCEPT ![u] =
                             [current_payment_id |-> u, current_plan |-> plan]]
       \/ UNCHANGED <<payments, user_data>>
    /\ UNCHANGED <<callVars, storeVars, reconVars, now, chat, exp, vip, expNotices, genVars>>

\* The payer pays, or the payment is rejected.
PaymentUpdate(u, status) ==
    /\ payments[u] = "pending"
    /\ payments' = [payments EXCEPT ![u] = status]
    /\ UNCHANGED <<callVars, storeVars, reconVars, now, user_data, chat, exp, vip, expNotices, genVars>>

\* GET /v1/payments/{payment_id}: the status, or None when the call fails.
check_payment_status(payment_id, available) ==
    IF available THEN payments[payment_id] ELSE None

\* generate_vip_invite_link: the link that create_chat_invite_link made, or
\* the text returned in its place when no channel is configured or the call
\* raised.
generate_vip_invite_link(chan, created) ==
    IF chan = NoChannel THEN "#ERRO_CANAL_VIP_NAO_CONFIGURADO"
    ELSE IF created THEN "invite_link"
    ELSE "#ERRO_GERAR_LINK_CONVITE"

\* A variant that offers the link to whoever has a row.
StatusBranch_any_row(u, available) ==
    LET payment_id == user_data[u].current_payment_id
        payment_status == check_payment_status(payment_id, available)
    IN IF HasRow(u) THEN "active"
       ELSE IF payment_id = 0 THEN "no_payment"
       ELSE IF payment_status = "approved"
            THEN (IF user_data[u].current_plan # None THEN "activated" ELSE "no_plan")
       ELSE IF payment_status = "pending" THEN "pending"
       ELSE IF payment_status = None THEN "raised"
       ELSE "other"

\* The branch /status takes for user u: a user with a row is shown it, with
\* a link when it is active; a user without one is told of their current
\* payment, and gets a row when the provider reports it approved.  On the
\* None of an unavailable provider payment_status.upper() raises
\* AttributeError, which nothing catches.
StatusBranch(u, available) ==
    LET payment_id == user_data[u].current_payment_id
        payment_status == check_payment_status(payment_id, available)
    IN IF HasRow(u) THEN (IF subscribers[u].status = "active" THEN "active" ELSE "inactive")
       ELSE IF payment_id = 0 THEN "no_payment"
       ELSE IF payment_status = "approved"
            THEN (IF user_data[u].current_plan # None THEN "activated" ELSE "no_plan")
       ELSE IF payment_status = "pending" THEN "pending"
       ELSE IF payment_status = None THEN "raised"
       ELSE "other"

\* The branches that call generate_vip_invite_link.
LinkBranches == {"active", "activated"}

\* A variant that also activates on a payment still pending.
status_command_unconfirmed(u, available, created) ==
    LET branch == IF StatusBranch(u, available) = "pending" /\ user_data[u].current_plan # None
                  THEN "activated" ELSE StatusBranch(u, available)
    IN /\ subscribers' =
            IF branch = "activated"
            THEN add_subscriber(subscribers, u, user_data[u].current_plan,
                                now + duration_days(user_data[u].current_plan), now)
            ELSE subscribers
       /\ setting' = IF branch \in LinkBranches
                     THEN SettingAfterRead(setting, VIP_CHANNEL_ID_ENV) ELSE setting
       /\ UNCHANGED <<evaluation, classification, summary, VIP_CHANNEL_ID_ENV, predictions,
                      reconVars, subVars, genVars>>

\* /status of user u, with the payment provider available or not and
\* create_chat_invite_link returning or raising: what the handler writes.
\* What it replies is status_reply.
status_command(u, available, created) ==
    LET branch == StatusBranch(u, available)
    IN /\ subscribers' =
            IF branch = "activated"
            THEN add_subscriber(subscribers, u, user_data[u].current_plan,
                                now + duration_days(user_data[u].current_plan), now)
            ELSE subscribers
       /\ setting' = IF branch \in LinkBranches
                     THEN SettingAfterRead(setting, VIP_CHANNEL_ID_ENV) ELSE setting
       /\ UNCHANGED <<evaluation, classification, summary, VIP_CHANNEL_ID_ENV, predictions,
                      reconVars, subVars, genVars>>

\* The handler's record of the update: the message of the branch and the
\* link in it, or, when the handler raised before update.message.reply_text,
\* no message.
status_reply(u, available, created) ==
    LET branch == StatusBranch(u, available)
    IN [name |-> "status", user |-> u, args |-> <<>>, pc |-> "handled",
        reply |-> IF branch = "raised" THEN "" ELSE branch,
        link |-> IF branch \in LinkBranches
                 THEN generate_vip_invite_link(
                          get_vip_channel_id_from_db(setting, VIP_CHANNEL_ID_ENV), created)
                 ELSE "",
        raised |-> branch = "raised"]

\* Time passes, by the days of the monthly plan and one more: by as much as
\* makes a monthly subscription taken at the earlier time due at the later.
TickDays == duration_days("plan_mensal") + 1

Tick ==
    /\ now < MaxTicks * TickDays
    /\ now' = now + TickDays
    /\ UNCHANGED <<callVars, storeVars, reconVars, user_data, payments, chat, exp, vip, expNotices, genVars>>

(***************************************************************************)
(* check_subscriptions_expiration.  The code suspends only at the `await   *)
(* send_message` that follows a status update: from the start, or from the *)
(* return of a send, it runs through the subscribers that are not due up   *)
(* to the next one that is, or to the end of its list.                     *)
(***************************************************************************)
IdleExp == [pc |-> "idle", now |-> 0, active |-> <<>>, i |-> 0]

\* A run that has ended: what is left of it is the time it ran at.
EndedExp(t) == [pc |-> "idle", now |-> t, active |-> <<>>, i |-> 1]

\* A variant with the comparison turned round.
IsDue_reversed(t, end_date) == t < end_date

\* now > end_date
IsDue(t, end_date) == t > end_date

\* The first position >= i of the list whose subscriber is due (Len + 1: none).
RECURSIVE NextDue(_, _, _)
NextDue(active, i, t) ==
    IF i > Len(active) \/ IsDue(t, active[i].end_date) THEN i
    ELSE NextDue(active, i + 1, t)

\* The loop from position i on: up to the status update of the next due
\* subscriber and the send that follows it, or to the end.
ExpireFrom(t, active, i) ==
    LET j == NextDue(active, i, t)
    IN IF j > Len(active)
       THEN /\ exp' = EndedExp(t)
            /\ UNCHANGED subscribers
       ELSE /\ subscribers' = update_subscriber_status(subscribers, active[j].user_id, "expired")
            /\ exp' = [pc |-> "send", now |-> t, active |-> active, i |-> j]

check_subscriptions_expiration_start ==
    /\ exp.pc = "idle"
    /\ ExpireFrom(now, get_all_active_subscribers(subscribers), 1)
    /\ UNCHANGED <<callVars, VIP_CHANNEL_ID_ENV, setting, predictions, reconVars,
                   now, user_data, payments, chat, vip, expNotices, genVars>>

\* A variant in which a send that raises ends the run.
check_subscriptions_expiration_sent_uncaught ==
    /\ exp.pc = "send"
    /\ \E ok \in BOOLEAN :
        IF ok
        THEN /\ expNotices' = [expNotices EXCEPT ![exp.active[exp.i].user_id] = @ + 1]
             /\ ExpireFrom(exp.now, exp.active, exp.i + 1)
        ELSE /\ exp' = EndedExp(exp.now)
             /\ UNCHANGED <<expNotices, subscribers>>
    /\ UNCHANGED <<callVars, VIP_CHANNEL_ID_ENV, setting, predictions, reconVars,
                   now, user_data, payments, chat, vip, genVars>>

\* send_message to the subscriber returns, or raises (caught and logged).
check_subscriptions_expiration_sent ==
    /\ exp.pc = "send"
    /\ \E ok \in BOOLEAN :
        expNotices' = [expNotices EXCEPT ![exp.active[exp.i].user_id] = @ + (IF ok THEN 1 ELSE 0)]
    /\ ExpireFrom(exp.now, exp.active, exp.i + 1)
    /\ UNCHANGED <<callVars, VIP_CHANNEL_ID_ENV, setting, predictions, reconVars,
                   now, user_data, payments, chat, vip, genVars>>

(***************************************************************************)
(* The channel (the messaging transport's member list).                    *)
(***************************************************************************)
PresentStatuses == {"member", "administrator", "creator"}

\* A user joins the channel (with an invite link) or leaves it.
ChatJoin(u) ==
    /\ chat[u] = "left"
    /\ chat' = [chat EXCEPT ![u] = "member"]
    /\ UNCHANGED <<callVars, storeVars, reconVars, now, user_data, payments, exp, vip, expNotices, genVars>>

ChatLeave(u) ==
    /\ chat[u] = "member"
    /\ chat' = [chat EXCEPT ![u] = "left"]
    /\ UNCHANGED <<callVars, storeVars, reconVars, now, user_data, payments, exp, vip, expNotices, genVars>>

(***************************************************************************)
(* check_vip_members.  Every transport call and the sleep that ends each   *)
(* turn of the loop suspend the run; a turn for the administrator          *)
(* (`continue`) does not.                                                  *)
(***************************************************************************)
IdleVip == [pc |-> "idle", chan |-> NoChannel, all |-> <<>>, active |-> {}, i |-> 0]

\* A variant that exempts nobody.
IsAdmin_nobody(user_id) == FALSE

\* if user_id == ADMIN_USER_ID: continue
IsAdmin(user_id) == user_id = ADMIN_USER_ID

\* The first position >= i of the list that is not the administrator's.
RECURSIVE NextChecked(_, _)
NextChecked(all, i) ==
    IF i > Len(all) \/ ~IsAdmin(all[i].user_id) THEN i ELSE NextChecked(all, i + 1)

\* {sub[0] for sub in all_subscribers if sub[1] == 'active'}
ActiveIds(all) == {all[j].user_id : j \in {m \in 1..Len(all) : all[m].status = "active"}}

\* The loop from position i on: to the next get_chat_member call, or the end.
VipFrom(run, i) ==
    LET j == NextChecked(run.all, i)
    IN IF j > Len(run.all) THEN IdleVip ELSE [run EXCEPT !.pc = "get", !.i = j]

check_vip_members_start ==
    /\ vip.pc = "idle"
    /\ setting' = SettingAfterRead(setting, VIP_CHANNEL_ID_ENV)
    /\ LET chan == get_vip_channel_id_from_db(setting, VIP_CHANNEL_ID_ENV)
           all == get_all_subscribers(subscribers)
       IN vip' = IF chan = NoChannel THEN IdleVip
                 ELSE VipFrom([pc |-> "idle", chan |-> chan, all |-> all,
                               active |-> ActiveIds(all), i |-> 0], 1)
    /\ UNCHANGED <<callVars, VIP_CHANNEL_ID_ENV, predictions, subscribers, reconVars,
                   now, user_data, payments, chat, exp, expNotices, genVars>>

\* The user at the run's position.
VipUser == vip.all[vip.i].user_id

\* A variant with the membership test of the active set turned round.
ShouldRemove_active(member_status, user_id, active) ==
    member_status \in PresentStatuses /\ user_id \in active

\* is_in_channel and user_id not in active_subscriber_ids
ShouldRemove(member_status, user_id, active) ==
    member_status \in PresentStatuses /\ user_id \notin active

\* get_chat_member returns the member's status, or raises: then, or when the
\* user is to stay, the turn ends with the sleep; else ban_chat_member is called.
check_vip_members_got ==
    /\ vip.pc = "get"
    /\ \E ok \in BOOLEAN :
        vip' = [vip EXCEPT !.pc =
                  IF ok /\ ShouldRemove(chat[VipUser], VipUser, vip.active)
                  THEN "ban" ELSE "sleep"]
    /\ UNCHANGED <<callVars, storeVars, reconVars, now, user_data, payments, chat, exp, expNotices, genVars>>

\* ban_chat_member returns (the user is banned) and unban_chat_member is
\* called, or it raises and the turn ends with the sleep.
check_vip_members_banned ==
    /\ vip.pc = "ban"
    /\ \/ /\ chat' = [chat EXCEPT ![VipUser] = "kicked"]
          /\ vip' = [vip EXCEPT !.pc = "unban"]
       \/ /\ vip' = [vip EXCEPT !.pc = "sleep"]
          /\ UNCHANGED chat
    /\ UNCHANGED <<callVars, storeVars, reconVars, now, user_data, payments, exp, expNotices, genVars>>

\* unban_chat_member returns (the user may join again), or raises (logged);
\* the turn ends with the sleep.
check_vip_members_unbanned ==
    /\ vip.pc = "unban"
    /\ \/ chat' = [chat EXCEPT ![VipUser] = "left"]
       \/ UNCHANGED chat
    /\ vip' = [vip EXCEPT !.pc = "sleep"]
    /\ UNCHANGED <<callVars, storeVars, reconVars, now, user_data, payments, exp, expNotices, genVars>>

\* asyncio.sleep(1) is over: the next turn.
check_vip_members_wake ==
    /\ vip.pc = "sleep"
    /\ vip' = VipFrom(vip, vip.i + 1)
    /\ UNCHANGED <<callVars, storeVars, reconVars, now, user_data, payments, chat, exp, expNotices, genVars>>

(***************************************************************************)
(* The day's matches as the data provider lists them.  Matches 1..MaxGames *)
(* are league and cup matches, of a priority league when the id is odd;    *)
(* one more match is a friendly.                                           *)
(***************************************************************************)
PRIORITY_LEAGUES == {71, 72, 73, 13, 11, 39, 140, 135, 78, 61, 94, 88, 2, 3, 1, 4}

Games == 1..MaxGames
Friendly == MaxGames + 1
LeagueType(g) == IF g = Friendly THEN "friendly" ELSE IF g % 3 = 0 THEN "cup" ELSE "league"
LeagueId(g) == IF g = Friendly THEN 667 ELSE IF g % 2 = 1 THEN 71 ELSE 40

\* The matches of a set, in the order of their ids.
RECURSIVE ListOf(_)
ListOf(S) ==
    IF S = {} THEN <<>>
    ELSE LET g == CHOOSE x \in S : \A y \in S : x <= y IN <<g>> \o ListOf(S \ {g})

Members(list) == {list[j] : j \in 1..Len(list)}

\* What get_fixtures_by_date and get_live_fixtures can return: any of the
\* first MaxDay matches, all of them and the friendly, or the friendly alone;
\* or the first n matches.
FixtureLists ==
    {ListOf(S) : S \in SUBSET (1..MaxDay)}
        \cup {ListOf((1..MaxDay) \cup {Friendly}), <<Friendly>>}
FullLists == {ListOf(1..n) : n \in 0..MaxGames}

\* f["league"]["type"] == "league" or f["league"]["type"] == "cup"
IsFootball(g) == LeagueType(g) = "league" \/ LeagueType(g) = "cup"
\* f["league"]["id"] in PRIORITY_LEAGUES
IsPriority(g) == LeagueId(g) \in PRIORITY_LEAGUES
IsOther(g) == ~IsPriority(g)

\* A variant that keeps the provider's order, the priority leagues not first.
sorted_fixtures_unpartitioned(fixtures_data) == SelectSeq(fixtures_data, IsFootball)

\* sorted_fixtures = priority_fixtures + other_fixtures
sorted_fixtures(fixtures_data) ==
    LET football_fixtures == SelectSeq(fixtures_data, IsFootball)
    IN SelectSeq(football_fixtures, IsPriority) \o SelectSeq(football_fixtures, IsOther)

(***************************************************************************)
(* Reading the AI's answer (the same lines in send_daily_predictions and   *)
(* send_live_predictions): the text is split in lines, and a line that     *)
(* holds a label sets that label's field.  float() of the confidence or of *)
(* the odd raises on a text that is not a number, and the except clause    *)
(* of the caller then drops the match (`continue`).                        *)
(***************************************************************************)
\* s.replace(sub, ""): the occurrences of sub, left to right, are taken out.
RECURSIVE Remove(_, _)
Remove(s, sub) ==
    IF Len(s) < Len(sub) \/ Len(s) = 0 THEN s
    ELSE IF SubSeq(s, 1, Len(sub)) = sub THEN Remove(SubSeq(s, Len(sub) + 1, Len(s)), sub)
    ELSE Char(s, 1) \o Remove(SubSeq(s, 2, Len(s)), sub)

\* s.split("\n")
RECURSIVE SplitLines(_)
SplitLines(s) ==
    LET cut == {i \in 1..Len(s) : Char(s, i) = "\n"}
        first == CHOOSE i \in cut : \A j \in cut : i <= j
    IN IF cut = {} THEN <<s>>
       ELSE <<SubSeq(s, 1, first - 1)>> \o SplitLines(SubSeq(s, first + 1, Len(s)))

\* float(text), for texts of a sign, digits and a point: whether it returns
\* (ok), and the number it returns, in hundredths (two decimals are kept).
Float(text) ==
    LET t == Strip(text)
        u == IF Len(t) > 0 /\ Char(t, 1) \in {"-", "+"} THEN SubSeq(t, 2, Len(t)) ELSE t
        k == SkipDigits(u, 1)
        hasPoint == k <= Len(u) /\ Char(u, k) = "."
        m == IF hasPoint THEN SkipDigits(u, k + 1) ELSE k
        whole == SubSeq(u, 1, k - 1)
        frac == IF hasPoint THEN SubSeq(u, k + 1, m - 1) ELSE ""
        cents == SubSeq(frac \o "00", 1, 2)
        value == ToNat(whole) * 100 + ToNat(cents)
    IN [ok |-> m = Len(u) + 1 /\ Len(whole) + Len(frac) > 0,
        value |-> IF Len(t) > 0 /\ Char(t, 1) = "-" THEN 0 - value ELSE value]

\* The fields before the lines are read.
NeutralFields ==
    [kind |-> "answer", analysis |-> "N/A", prediction |-> "N/A", confidence |-> 0,
     suggested_odd |-> 0, market |-> "N/A"]

\* The lines from position i on, read into the fields; confidence is
\* float(...) / 100.0, in hundredths.  kind "parse_error" stands for the
\* exception.
RECURSIVE ParseLines(_, _, _)
ParseLines(lines, i, fields) ==
    IF i > Len(lines) THEN fields
    ELSE LET line == lines[i]
             Has(label) == Contains(line, label)
             confidence == Float(Remove(Remove(line, "Confiança:"), "%"))
             suggested_odd == Float(Remove(line, "Odd Sugerida:"))
         IN IF \/ Has("Confiança:") /\ ~confidence.ok
               \/ Has("Odd Sugerida:") /\ ~suggested_odd.ok
            THEN [NeutralFields EXCEPT !.kind = "parse_error"]
            ELSE ParseLines(lines, i + 1,
                   [kind |-> "answer",
                    analysis |-> IF Has("Análise:") THEN Strip(Remove(line, "Análise:"))
                                 ELSE fields.analysis,
                    prediction |-> IF Has("Palpite:") THEN Strip(Remove(line, "Palpite:"))
                                   ELSE fields.prediction,
                    confidence |-> IF Has("Confiança:") THEN confidence.value \div 100
                                   ELSE fields.confidence,
                    suggested_odd |-> IF Has("Odd Sugerida:") THEN suggested_odd.value
                                      ELSE fields.suggested_odd,
                    market |-> IF Has("Mercado:") THEN Strip(Remove(line, "Mercado:"))
                               ELSE fields.market])

parse_ai_response(ai_response) == ParseLines(SplitLines(ai_response), 1, NeutralFields)

(***************************************************************************)
(* What the statistics calls and the AI give for one match: the statistics *)
(* raise or return, and analyze_and_predict returns None or a text.        *)
(***************************************************************************)
\* Answers of the AI: with every label; with the prediction alone; with a
\* confidence that is not a number.
FullAnswer ==
    "Análise: Mandante forte\nPalpite: Over 2.5 gols\nConfiança: 80%\nMercado: Gols\nOdd Sugerida: 1.80"
AIResponses ==
    {FullAnswer,
     "Palpite: Vitória do Chelsea",
     "Palpite: Over 2.5 gols\nConfiança: alta"}

\* parse_ai_response of the answers of the model, computed once.
Parsed == [t \in AIResponses |-> parse_ai_response(t)]

\* For one match: the statistics calls raise ("error"), or they return and
\* analyze_and_predict returns None or an answer.
Outcomes ==
    {[stats |-> "error", ai_response |-> None]}
        \cup {[stats |-> "ok", ai_response |-> t] : t \in {None} \cup AIResponses}

\* The match is left without a candidate before its answer is read.
Skipped(outcome) == outcome.stats = "error" \/ ~Truthy(outcome.ai_response)

\* The dict appended to all_predictions (pred_data of the live job).
Candidate(g, fields) ==
    [match_id |-> g, analysis |-> fields.analysis, prediction |-> fields.prediction,
     confidence |-> fields.confidence, suggested_odd |-> fields.suggested_odd,
     market |-> fields.market]

\* A variant without the threshold.
predictions_to_send_always_ten(num_games) == 10

\* predictions_to_send = 10 if num_games >= 6 else 3
predictions_to_send(num_games) == IF num_games >= 6 THEN 10 ELSE 3

\* The first loop of send_daily_predictions: the candidates of the matches from
\* position i on, added to all_predictions until it has the wanted number and 5.
\* A variant that a failed statistics call or a missing answer ends (`break`
\* for `continue`).
RECURSIVE Collect_until_failure(_, _, _, _, _)
Collect_until_failure(fixtures, i, outcome, all_predictions, wanted) ==
    IF i > Len(fixtures) \/ Len(all_predictions) >= wanted + 5 THEN all_predictions
    ELSE IF Skipped(outcome[fixtures[i]]) THEN all_predictions
    ELSE Collect_until_failure(fixtures, i + 1, outcome,
                 IF Parsed[outcome[fixtures[i]].ai_response].kind = "parse_error"
                 THEN all_predictions
                 ELSE Append(all_predictions,
                             Candidate(fixtures[i], Parsed[outcome[fixtures[i]].ai_response])),
                 wanted)

RECURSIVE Collect(_, _, _, _, _)
Collect(fixtures, i, outcome, all_predictions, wanted) ==
    IF i > Len(fixtures) \/ Len(all_predictions) >= wanted + 5 THEN all_predictions
    ELSE Collect(fixtures, i + 1, outcome,
                 IF \/ Skipped(outcome[fixtures[i]])
                    \/ Parsed[outcome[fixtures[i]].ai_response].kind = "parse_error"
                 THEN all_predictions
                 ELSE Append(all_predictions,
                             Candidate(fixtures[i], Parsed[outcome[fixtures[i]].ai_response])),
                 wanted)

\* all_predictions.sort(key=confidence, reverse=True): stable, so candidates of
\* one confidence keep their order.
RECURSIVE InsertByConfidence(_, _)
InsertByConfidence(sorted, c) ==
    IF sorted = <<>> THEN <<c>>
    ELSE IF Head(sorted).confidence >= c.confidence
         THEN <<Head(sorted)>> \o InsertByConfidence(Tail(sorted), c)
         ELSE <<c>> \o sorted

RECURSIVE SortByConfidence(_)
SortByConfidence(all_predictions) ==
    IF all_predictions = <<>> THEN <<>>
    ELSE InsertByConfidence(SortByConfidence(SubSeq(all_predictions, 1, Len(all_predictions) - 1)),
                            all_predictions[Len(all_predictions)])

\* build_daily_multiple_message: the predictions the message combines (top3),
\* none when the function returns None.
build_daily_multiple_message(all_predictions) ==
    IF Len(all_predictions) < 3 THEN <<>>
    ELSE SubSeq(all_predictions, 1, 3)

\* INSERT INTO predictions_history (fixture_id, ..., prediction, confidence, suggested_odd)
add_prediction_history(rows, fixture_id, prediction, confidence, suggested_odd) ==
    Append(rows, [fixture_id |-> fixture_id, prediction |-> prediction,
                  confidence |-> confidence, suggested_odd |-> suggested_odd,
                  result |-> "pending", date_added |-> now])

(***************************************************************************)
(* send_daily_predictions.  Up to its first send_message the run does not  *)
(* suspend; it suspends at each send and at the pause before the multiple. *)
(***************************************************************************)
IdleDaily == [pc |-> "idle", chan |-> NoChannel, fixtures |-> <<>>, outcome |-> <<>>,
              all |-> <<>>, wanted |-> 0, i |-> 0, sent |-> <<>>]

\* After the individual messages: the multiple, if there is one.
DailyAfterSends(run) ==
    IF build_daily_multiple_message(run.all) # <<>>
    THEN [run EXCEPT !.pc = "pause"] ELSE IdleDaily

\* The second loop from position i on: the next send, or what follows the loop.
DailyFrom(run, i) ==
    IF i > Len(run.all) \/ i > run.wanted THEN DailyAfterSends(run)
    ELSE [run EXCEPT !.pc = "send", !.i = i]

\* The run starts: the channel id, the day's matches (the call may raise), the
\* candidates, their order, and the first send.  The day's list and what the
\* statistics calls and the AI give for each match are drawn from the given
\* sets; the run keeps them (fixtures, outcome) and the matches whose message
\* was delivered (sent).
send_daily_predictions_start(lists, outcomes) ==
    /\ daily.pc = "idle"
    /\ runs > 0
    /\ runs' = runs - 1
    /\ setting' = SettingAfterRead(setting, VIP_CHANNEL_ID_ENV)
    /\ LET chan == get_vip_channel_id_from_db(setting, VIP_CHANNEL_ID_ENV)
       IN IF chan = NoChannel
          THEN daily' = IdleDaily
          ELSE \/ daily' = IdleDaily
               \/ \E fixtures_data \in lists :
                   \E outcome \in [Members(sorted_fixtures(fixtures_data)) -> outcomes] :
                    LET fixtures == sorted_fixtures(fixtures_data)
                        wanted == predictions_to_send(Len(fixtures))
                        all == SortByConfidence(Collect(fixtures, 1, outcome, <<>>, wanted))
                    IN daily' = IF fixtures_data = <<>> THEN IdleDaily
                                ELSE DailyFrom([pc |-> "idle", chan |-> chan,
                                                fixtures |-> fixtures, outcome |-> outcome,
                                                all |-> all, wanted |-> wanted, i |-> 0,
                                                sent |-> <<>>], 1)
    /\ UNCHANGED <<evaluation, classification, summary, VIP_CHANNEL_ID_ENV, predictions, subscribers,
                   reconVars, subVars, live, delivered>>

\* A variant that records the prediction whether or not its message was sent.
send_daily_predictions_sent_unconditional ==
    /\ daily.pc = "send"
    /\ LET pred == daily.all[daily.i]
       IN \E ok \in BOOLEAN :
            /\ predictions' = add_prediction_history(predictions, pred.match_id, pred.prediction,
                                                     pred.confidence, pred.suggested_odd)
            /\ delivered' = [delivered EXCEPT ![pred.match_id] = @ + (IF ok THEN 1 ELSE 0)]
            /\ daily' = DailyFrom([daily EXCEPT !.sent = IF ok THEN Append(@, pred.match_id)
                                                         ELSE @], daily.i + 1)
    /\ UNCHANGED <<callVars, VIP_CHANNEL_ID_ENV, setting, subscribers, reconVars, subVars, live, runs>>

\* send_message returns, and the prediction is recorded, or raises (caught and
\* logged); then the next prediction.
send_daily_predictions_sent ==
    /\ daily.pc = "send"
    /\ LET pred == daily.all[daily.i]
       IN \/ /\ predictions' = add_prediction_history(predictions, pred.match_id, pred.prediction,
                                                      pred.confidence, pred.suggested_odd)
             /\ delivered' = [delivered EXCEPT ![pred.match_id] = @ + 1]
             /\ daily' = DailyFrom([daily EXCEPT !.sent = Append(@, pred.match_id)],
                                   daily.i + 1)
          \/ /\ UNCHANGED <<predictions, delivered>>
             /\ daily' = DailyFrom(daily, daily.i + 1)
    /\ UNCHANGED <<callVars, VIP_CHANNEL_ID_ENV, setting, subscribers, reconVars, subVars, live, runs>>

\* asyncio.sleep(2) is over: the multiple is sent.
send_daily_predictions_paused ==
    /\ daily.pc = "pause"
    /\ daily' = [daily EXCEPT !.pc = "multiple"]
    /\ UNCHANGED <<callVars, storeVars, reconVars, subVars, live, runs, delivered>>

\* send_message of the multiple returns or raises (caught and logged).
send_daily_predictions_multiple_sent ==
    /\ daily.pc = "multiple"
    /\ daily' = IdleDaily
    /\ UNCHANGED <<callVars, storeVars, reconVars, subVars, live, runs, delivered>>

(***************************************************************************)
(* send_live_predictions.  The run suspends at each send_message and at    *)
(* the sleep that ends a turn of its loop; a turn for a match that is      *)
(* skipped, or whose answer cannot be read, goes on to the next match      *)
(* without either.  What the provider and the AI give for each match is    *)
(* drawn when the run starts, and the run keeps the turns that suspend.    *)
(***************************************************************************)
SkippedStatuses == {"HT", "FT", "AET", "PEN", "PST", "CANC", "ABD"}
LiveStatuses == {"1H", "HT"}
LiveOutcomes == {o \in Outcomes : o.stats = "ok"}

IdleLive == [pc |-> "idle", chan |-> NoChannel, turns |-> <<>>, i |-> 0]

\* The turn for match g ends at once (`continue`): it neither sends nor sleeps.
LiveContinues(status, outcome, g) ==
    \/ status[g] \in SkippedStatuses
    \/ Truthy(outcome[g].ai_response) /\ Parsed[outcome[g].ai_response].kind = "parse_error"

\* The turns of the loop that send or sleep, in order: for each, the match and
\* the prediction read from the AI's answer (prediction None: no answer, the
\* turn only sleeps).
RECURSIVE LiveTurns(_, _, _, _)
LiveTurns(fixtures, i, status, outcome) ==
    IF i > Len(fixtures) THEN <<>>
    ELSE (IF LiveContinues(status, outcome, fixtures[i]) THEN <<>>
          ELSE << IF Skipped(outcome[fixtures[i]])
                  THEN [Candidate(fixtures[i], NeutralFields) EXCEPT !.prediction = None]
                  ELSE Candidate(fixtures[i], Parsed[outcome[fixtures[i]].ai_response]) >>)
         \o LiveTurns(fixtures, i + 1, status, outcome)

\* The loop from turn i on: to its send or its sleep, or the end.
LiveFrom(run, i) ==
    IF i > Len(run.turns) THEN IdleLive
    ELSE [run EXCEPT !.i = i,
                     !.pc = IF run.turns[i].prediction = None THEN "sleep" ELSE "send"]

\* priority_live[:5]
priority_live(live_fixtures) ==
    LET p == SelectSeq(live_fixtures, IsPriority) IN SubSeq(p, 1, IF Len(p) < 5 THEN Len(p) ELSE 5)

send_live_predictions_start(lists) ==
    /\ live.pc = "idle"
    /\ runs > 0
    /\ runs' = runs - 1
    /\ setting' = SettingAfterRead(setting, VIP_CHANNEL_ID_ENV)
    /\ LET chan == get_vip_channel_id_from_db(setting, VIP_CHANNEL_ID_ENV)
       IN IF chan = NoChannel
          THEN live' = IdleLive
          ELSE \/ live' = IdleLive
               \/ \E live_fixtures \in lists :
                   \E status \in [Members(priority_live(live_fixtures)) -> LiveStatuses],
                      outcome \in [Members(priority_live(live_fixtures)) -> LiveOutcomes] :
                    live' = LiveFrom([pc |-> "idle", chan |-> chan,
                                      turns |-> LiveTurns(priority_live(live_fixtures), 1,
                                                          status, outcome),
                                      i |-> 0], 1)
    /\ UNCHANGED <<evaluation, classification, summary, VIP_CHANNEL_ID_ENV, predictions, subscribers,
                   reconVars, subVars, daily, delivered>>

\* send_message returns, and the prediction is recorded, or raises (caught and
\* logged); then the sleep.
send_live_predictions_sent ==
    /\ live.pc = "send"
    /\ LET g == live.turns[live.i].match_id
           pred == live.turns[live.i]
       IN \/ /\ predictions' = add_prediction_history(predictions, g, pred.prediction,
                                                      pred.confidence, pred.suggested_odd)
             /\ delivered' = [delivered EXCEPT ![g] = @ + 1]
          \/ UNCHANGED <<predictions, delivered>>
    /\ live' = [live EXCEPT !.pc = "sleep"]
    /\ UNCHANGED <<callVars, VIP_CHANNEL_ID_ENV, setting, subscribers, reconVars, subVars, daily, runs>>

\* asyncio.sleep(1) is over: the next match.
send_live_predictions_wake ==
    /\ live.pc = "sleep"
    /\ live' = LiveFrom(live, live.i + 1)
    /\ UNCHANGED <<callVars, storeVars, reconVars, subVars, daily, runs, delivered>>

IdleGen ==
    /\ daily = IdleDaily
    /\ live = IdleLive
    /\ runs = MaxRuns
    /\ delivered = [g \in Games |-> 0]

(***************************************************************************)
(* A call of evaluate_prediction, as check_results makes it: on a text of  *)
(* the AI and the result of a match that is over.  The texts name one      *)
(* market, or several; the results have each side's goals (None when the   *)
(* provider left them null) and the two teams.                             *)
(***************************************************************************)
NoCall == [prediction_text |-> "", fixture_result |-> NoResult, result |-> None,
           again |-> None]

EvalTexts ==
    {"Over 2.5 gols", "over 2", "Over 1,5 - Vitória do Arsenal", "Over 2.5 e ambas marcam",
     "Empate com over 0.5", "Under 3.5 e over 1.5",
     "Under 2.5 gols", "under 3", "Under 1.5 - empate - Chelsea", "Ambas marcam e under 4.5",
     "Ambas marcam", "BTTS sim", "Ambas marcam - empate", "Ambas marcam - Vitória do Chelsea",
     "Ambas marcam: não", "BTTS - No", "Ambas marcam - Torino",
     "Empate", "Draw - Arsenal",
     "Vitória do Chelsea", "Arsenal para vencer", "Torino", "Vitória do Milan",
     "Arsenal ou Chelsea", "Vitória", "xyzzy"}

EvalResults ==
    {[status_short |-> "FT", home_goals |-> h, away_goals |-> a,
      home_team |-> t[1], away_team |-> t[2]] :
        h \in {NoGoals} \cup (0..MaxGoals), a \in {NoGoals} \cup (0..MaxGoals),
        t \in {<<"Arsenal", "Chelsea">>, <<"Torino", "AC Milan">>}}

\* result = evaluate_prediction(prediction_text, fixture_result), and the
\* same call once more (`again`): the function reads its arguments only.
evaluate_prediction_call ==
    /\ evaluation.again = None
    /\ LET result == evaluate_prediction(evaluation.prediction_text,
                                         evaluation.fixture_result)
       IN evaluation' = IF evaluation.result = None
                        THEN [evaluation EXCEPT !.result = result]
                        ELSE [evaluation EXCEPT !.again = result]
    /\ UNCHANGED <<classification, summary, command, storeVars, reconVars, subVars, genVars>>

(***************************************************************************)
(* classify_odd, as format_prediction_message calls it on the odd of a     *)
(* prediction.  The argument is given as a text: a number by its decimal   *)
(* digits, of which float() makes the number; on any other text, and on    *)
(* None, float() raises and the odd is taken as 0.  The band is named by   *)
(* its word, without the coloured circle that precedes it in the source.   *)
(***************************************************************************)
\* A variant whose bands end just below 1.50 and 2.00.
classify_odd_below(odd_value) ==
    LET parsed == Float(odd_value)
        odd == IF odd_value # None /\ parsed.ok THEN parsed.value ELSE 0
    IN IF odd < 150 THEN <<"SEGURA", "5%">>
       ELSE IF odd < 200 THEN <<"MÉDIA", "3%">>
       ELSE <<"ALTA", "1-2%">>

classify_odd(odd_value) ==
    LET parsed == Float(odd_value)
        odd == IF odd_value # None /\ parsed.ok THEN parsed.value ELSE 0
    IN IF odd <= 150 THEN <<"SEGURA", "5%">>
       ELSE IF odd <= 200 THEN <<"MÉDIA", "3%">>
       ELSE <<"ALTA", "1-2%">>

NoClassification == [odd_value |-> "", result |-> <<>>]

\* str(n)
RECURSIVE Str(_)
Str(n) ==
    IF n < 0 THEN "-" \o Str(0 - n)
    ELSE IF n < 10 THEN SubSeq("0123456789", n + 1, n + 1)
    ELSE Str(n \div 10) \o Str(n % 10)

\* The largest odd of the model, in hundredths.
MaxOdd == 250

\* An odd of h hundredths, written with two decimals.
OddText(h) == Str(h \div 100) \o "." \o Str((h % 100) \div 10) \o Str(h % 10)

\* Odds written otherwise, and values that are no numbers.
OtherOdds == {"0", "1", "1.5", "2", "2.0", "3.7", "10", "-1", None, "", "alta", "1,80", "2.0x"}

\* pred.get("suggested_odd", 0): every odd up to MaxOdd, the 0 of an odd
\* that was not read among them.
OddValues == {OddText(h) : h \in 0..MaxOdd} \cup OtherOdds

\* odd_class, banca_pct = classify_odd(...)
classify_odd_call ==
    /\ classification.result = <<>>
    /\ classification' = [classification EXCEPT !.result = classify_odd(classification.odd_value)]
    /\ UNCHANGED <<evaluation, summary, command, storeVars, reconVars, subVars, genVars>>

(***************************************************************************)
(* send_daily_summary.  The run suspends only at its one send_message,     *)
(* after the message was built: the figures are those of the store at the  *)
(* start.  Profit is in hundredths of a unit, the rates in whole percents  *)
(* ("{:.0f}") and the ROI in tenths of a percent ("{:.1f}").               *)
(***************************************************************************)
\* SELECT ... FROM predictions_history WHERE date_added LIKE 'date_str%'
get_daily_predictions_summary(rows, date_str) ==
    SelectSeq(rows, LAMBDA row : row.date_added = date_str)

NoTally == [greens |-> 0, reds |-> 0, pending_count |-> 0,
            total_profit |-> 0, total_staked |-> 0]

\* A variant that stakes one unit on a pending record too.
RECURSIVE Tally_pending_staked(_, _, _)
Tally_pending_staked(day_predictions, k, t) ==
    IF k > Len(day_predictions) THEN t
    ELSE LET result == day_predictions[k].result
             suggested_odd == day_predictions[k].suggested_odd
         IN Tally_pending_staked(day_predictions, k + 1,
                 IF result = "green"
                 THEN [t EXCEPT !.greens = @ + 1,
                                !.total_profit = @ + (suggested_odd - 100),
                                !.total_staked = @ + 1]
                 ELSE IF result = "red"
                 THEN [t EXCEPT !.reds = @ + 1,
                                !.total_profit = @ - 100,
                                !.total_staked = @ + 1]
                 ELSE [t EXCEPT !.pending_count = @ + 1,
                                !.total_staked = @ + 1])

\* for pred in predictions: ... (`pred[4] or 0.0` leaves an odd of 0 at 0)
RECURSIVE Tally(_, _, _)
Tally(day_predictions, k, t) ==
    IF k > Len(day_predictions) THEN t
    ELSE LET result == day_predictions[k].result
             suggested_odd == day_predictions[k].suggested_odd
         IN Tally(day_predictions, k + 1,
                 IF result = "green"
                 THEN [t EXCEPT !.greens = @ + 1,
                                !.total_profit = @ + (suggested_odd - 100),
                                !.total_staked = @ + 1]
                 ELSE IF result = "red"
                 THEN [t EXCEPT !.reds = @ + 1,
                                !.total_profit = @ - 100,
                                !.total_staked = @ + 1]
                 ELSE [t EXCEPT !.pending_count = @ + 1])

\* f"{num / den:.0f}": the integers nearest to num / den.  Float division
\* decides a value half way between two of them, so both are possible.
Roundings(num, den) ==
    {r \in ((num \div den) - 1)..((num \div den) + 1) :
        2 * (IF r * den >= num THEN r * den - num ELSE num - r * den) <= den}

NoSummary == [total |-> 0, greens |-> 0, reds |-> 0, pending_count |-> 0,
              green_pct |-> 0, red_pct |-> 0, roi |-> 0, total_profit |-> 0]

send_daily_summary ==
    /\ setting' = SettingAfterRead(setting, VIP_CHANNEL_ID_ENV)
    /\ LET vip_channel_id == get_vip_channel_id_from_db(setting, VIP_CHANNEL_ID_ENV)
           today == now
           day_predictions == get_daily_predictions_summary(predictions, today)
           t == Tally(day_predictions, 1, NoTally)
           resolved == t.greens + t.reds
       IN IF vip_channel_id = NoChannel \/ day_predictions = <<>>
          THEN UNCHANGED summary
          ELSE \E roi \in (IF t.total_staked > 0
                           THEN Roundings(10 * t.total_profit, t.total_staked) ELSE {0}),
                  green_pct \in (IF resolved > 0
                                 THEN Roundings(100 * t.greens, resolved) ELSE {0}),
                  red_pct \in (IF resolved > 0
                               THEN Roundings(100 * t.reds, resolved) ELSE {0}),
                  sent \in BOOLEAN :
                    summary' = IF sent
                               THEN [total |-> Len(day_predictions), greens |-> t.greens,
                                     reds |-> t.reds, pending_count |-> t.pending_count,
                                     green_pct |-> green_pct, red_pct |-> red_pct,
                                     roi |-> roi, total_profit |-> t.total_profit]
                               ELSE summary
    /\ UNCHANGED <<evaluation, classification, VIP_CHANNEL_ID_ENV, predictions, subscribers,
                   reconVars, subVars, genVars>>

(***************************************************************************)
(* The admin commands.  The application handles one update at a time (it   *)
(* is built without concurrent_updates): a handler returns, the job it     *)
(* awaits included, before the next update is taken.  A handler's first    *)
(* step is its test of the sender, with the reply or the start of the job  *)
(* that follows; the job's further steps are the job's.                    *)
(***************************************************************************)
NoCommand ==
    [name |-> "", user |-> 0, args |-> <<>>, pc |-> "handled", reply |-> "", link |-> "",
     raised |-> FALSE]

\* context.args of the commands that read it
CommandArgs == {<<>>, <<"-1001234">>, <<"-100abc">>, <<"1001234">>, <<"-1001234", "x">>}

\* An update with a command arrives, when the handler of the one before it
\* has returned.
command_received(name, u, args) ==
    /\ command.pc = "handled"
    /\ cr["admin"].pc = "idle" /\ daily.pc = "idle" /\ live.pc = "idle"
    /\ name \in {"admin_forcar_envio", "admin_aovivo"} => runs > 0
    /\ command' = [name |-> name, user |-> u, args |-> args, pc |-> "received", reply |-> "",
                   link |-> "", raised |-> FALSE]
    /\ UNCHANGED <<evaluation, classification, summary, storeVars, reconVars, subVars, genVars>>

\* The handler of command `name` takes the update.
Handles(name) == command.pc = "received" /\ command.name = name

\* await update.message.reply_text(...), and nothing else
Replied(text) ==
    /\ command' = [command EXCEPT !.pc = "handled", !.reply = text]
    /\ UNCHANGED <<evaluation, classification, summary, storeVars, reconVars, subVars, genVars>>

\* The handler goes on to the job it awaits.
Started == command' = [command EXCEPT !.pc = "handled", !.reply = "started"]

\* A variant without the test of the sender.
admin_setchannel_command_unchecked ==
    /\ Handles("admin_setchannel")
    /\ IF Len(command.args) # 1 THEN Replied("usage")
       ELSE LET channel_input == command.args[1]
            IN IF /\ Len(channel_input) >= 4 /\ SubSeq(channel_input, 1, 4) = "-100"
                  /\ \A i \in 2..Len(channel_input) : IsDigit(Char(channel_input, i))
               THEN /\ setting' = Str(ToInt(channel_input))
                    /\ command' = [command EXCEPT !.pc = "handled", !.reply = "configured"]
                    /\ UNCHANGED <<evaluation, classification, summary, VIP_CHANNEL_ID_ENV, predictions,
                                   subscribers, reconVars, subVars, genVars>>
               ELSE Replied("invalid")

admin_setchannel_command ==
    /\ Handles("admin_setchannel")
    /\ IF command.user # ADMIN_USER_ID THEN Replied("denied")
       ELSE IF Len(command.args) # 1 THEN Replied("usage")
       ELSE LET channel_input == command.args[1]
            IN IF /\ Len(channel_input) >= 4 /\ SubSeq(channel_input, 1, 4) = "-100"
                  /\ \A i \in 2..Len(channel_input) : IsDigit(Char(channel_input, i))
               THEN /\ setting' = Str(ToInt(channel_input))
                    /\ command' = [command EXCEPT !.pc = "handled", !.reply = "configured"]
                    /\ UNCHANGED <<evaluation, classification, summary, VIP_CHANNEL_ID_ENV, predictions,
                                   subscribers, reconVars, subVars, genVars>>
               ELSE Replied("invalid")

\* The day's matches of the forced runs of the model, and what the AI gives.
\* On a day of one match a run ends after its one send, without a multiple.
ForcedLists == {<<>>, ListOf({1})}
ForcedOutcomes == {o \in Outcomes : o.stats = "ok" /\ o.ai_response \in {None, FullAnswer}}

admin_force_send_predictions_command ==
    /\ Handles("admin_forcar_envio")
    /\ IF command.user # ADMIN_USER_ID THEN Replied("denied")
       ELSE send_daily_predictions_start(ForcedLists, ForcedOutcomes) /\ Started

admin_force_live_command ==
    /\ Handles("admin_aovivo")
    /\ IF command.user # ADMIN_USER_ID THEN Replied("denied")
       ELSE send_live_predictions_start(ForcedLists) /\ Started

admin_force_check_results_command ==
    /\ Handles("admin_verificar_resultados")
    /\ IF command.user # ADMIN_USER_ID THEN Replied("denied")
       ELSE check_results_start("admin") /\ Started

admin_force_summary_command ==
    /\ Handles("admin_resumo")
    /\ IF command.user # ADMIN_USER_ID THEN Replied("denied")
       ELSE send_daily_summary /\ Started

\* /admin_jogos: the date is well formed or not, the provider lists matches
\* of that date or none; the reply is all the handler does.
admin_games_command ==
    /\ Handles("admin_jogos")
    /\ IF command.user # ADMIN_USER_ID THEN Replied("denied")
       ELSE IF Len(command.args) # 1 THEN Replied("usage")
       ELSE \E reply \in {"invalid_date", "games", "no_games"} : Replied(reply)

\* /admin_estatisticas: the counts of the two tables, in a reply.
admin_stats_command ==
    /\ Handles("admin_estatisticas")
    /\ IF command.user # ADMIN_USER_ID THEN Replied("denied")
       ELSE Replied("statistics")

(***************************************************************************)
(* Subscriptions on a fresh database: the payment flow, the clock and the  *)
(* expiration job.                                                         *)
(***************************************************************************)
IdleSub ==
    /\ user_data = [u \in Users |-> NoUserData]
    /\ payments = [u \in Users |-> "none"]
    /\ chat = [u \in Users |-> "left"]
    /\ exp = IdleExp
    /\ vip = IdleVip
    /\ expNotices = [u \in Users |-> 0]

IdleRecon ==
    /\ provider = [f \in Fixtures |-> "live"]
    /\ cr = [w \in Runners |-> IdleRun]
    /\ writes = [k \in 1..MaxPred |-> 0]
    /\ notified = [k \in 1..MaxPred |-> 0]

InitExp ==
    /\ VIP_CHANNEL_ID_ENV = "-1001234"
    /\ setting = None
    /\ predictions = <<>>
    /\ subscribers = [u \in Users |-> NoRow]
    /\ now = 0
    /\ IdleRecon
    /\ IdleSub
    /\ IdleGen
    /\ evaluation = NoCall
    /\ summary = NoSummary
    /\ command = NoCommand
    /\ classification = NoClassification

\* The payment flow, with the plan buttons pressed and the payment provider's
\* verdicts drawn from the given sets.  What /status writes does not depend
\* on create_chat_invite_link's outcome, which only its reply shows
\* (status_reply); the flow keeps no record of the reply, so one outcome
\* stands for both here.
PaymentFlow(pressed, verdicts) ==
    \/ \E u \in Users, plan \in pressed : button_callback_handler(u, plan)
    \/ \E u \in Users, s \in verdicts : PaymentUpdate(u, s)
    \/ \E u \in Users, available \in BOOLEAN :
          status_command(u, available, TRUE) /\ UNCHANGED command

NextExp ==
    \/ PaymentFlow({"plan_mensal"}, {"approved", "rejected"})
    \/ Tick
    \/ check_subscriptions_expiration_start
    \/ check_subscriptions_expiration_sent

SpecExp == InitExp /\ [][NextExp]_vars

(***************************************************************************)
(* The channel's members against a subscriber table that earlier days left *)
(* behind (rows that ended, expired or not yet), with the payment flow,    *)
(* the expiration job and the users' joining and leaving.                  *)
(***************************************************************************)
Today == TickDays

EarlierRows ==
    {NoRow,
     [start_date |-> 0, end_date |-> 0, plan |-> "plan_mensal", status |-> "expired"],
     [start_date |-> 0, end_date |-> 0, plan |-> "plan_mensal", status |-> "active"]}

InitVip ==
    /\ VIP_CHANNEL_ID_ENV = "-1001234"
    /\ setting = None
    /\ predictions = <<>>
    /\ subscribers \in [Users -> EarlierRows]
    /\ now = Today
    /\ IdleRecon
    /\ IdleSub
    /\ IdleGen
    /\ evaluation = NoCall
    /\ summary = NoSummary
    /\ command = NoCommand
    /\ classification = NoClassification

NextVip ==
    \/ PaymentFlow({"plan_mensal"}, {"approved"})
    \/ check_subscriptions_expiration_start
    \/ check_subscriptions_expiration_sent
    \/ \E u \in Users : ChatJoin(u)
    \/ \E u \in Users : ChatLeave(u)
    \/ check_vip_members_start
    \/ check_vip_members_got
    \/ check_vip_members_banned
    \/ check_vip_members_unbanned
    \/ check_vip_members_wake

SpecVip == InitVip /\ [][NextVip]_vars

(***************************************************************************)
(* The payment commands on a table that earlier days left behind, each     *)
(* /status with its reply.  No payment is under way at the start: a        *)
(* payment of a user whose row is expired was created after the row        *)
(* expired.  The expiration job does not run, and the rows that are        *)
(* active end later than today.                                            *)
(***************************************************************************)
PayRows ==
    {NoRow,
     [start_date |-> 0, end_date |-> 0, plan |-> "plan_mensal", status |-> "expired"],
     [start_date |-> Today, end_date |-> Today + duration_days("plan_mensal"),
      plan |-> "plan_mensal", status |-> "active"]}

InitPay ==
    /\ VIP_CHANNEL_ID_ENV \in {None, "-1001234"}
    /\ setting = None
    /\ predictions = <<>>
    /\ subscribers \in [Users -> PayRows]
    /\ now = Today
    /\ IdleRecon
    /\ IdleSub
    /\ IdleGen
    /\ evaluation = NoCall
    /\ summary = NoSummary
    /\ command = NoCommand
    /\ classification = NoClassification

\* /status of user u, handled to its end.
status_update(u) ==
    \E available \in BOOLEAN, created \in BOOLEAN :
        /\ status_command(u, available, created)
        /\ command' = status_reply(u, available, created)

NextPay ==
    \/ \E u \in Users : button_callback_handler(u, "plan_mensal")
    \/ \E u \in Users, s \in {"approved", "rejected"} : PaymentUpdate(u, s)
    \/ \E u \in Users : status_update(u)

SpecPay == InitPay /\ [][NextPay]_vars

(***************************************************************************)
(* The two jobs and the users' joining on such a table, with every         *)
(* transport call succeeding, no new payment and no user leaving the       *)
(* channel by themselves: who is out of the channel was removed by the     *)
(* membership job.  setup_jobs schedules both jobs every 6 hours           *)
(* (run_repeating) and the event loop resumes a suspended run: the steps   *)
(* of both jobs are weakly fair.                                           *)
(***************************************************************************)
\* send_message to the subscriber returns.
ExpirationNoticeSent == check_subscriptions_expiration_sent /\ expNotices' # expNotices

\* get_chat_member returns the member's status.
MemberGot ==
    /\ check_vip_members_got
    /\ ShouldRemove(chat[VipUser], VipUser, vip.active) => vip'.pc = "ban"

\* ban_chat_member returns.
MemberBanned == check_vip_members_banned /\ vip'.pc = "unban"

\* unban_chat_member returns.
MemberUnbanned == check_vip_members_unbanned /\ chat'[VipUser] = "left"

NextVipOk ==
    \/ check_subscriptions_expiration_start
    \/ ExpirationNoticeSent
    \/ \E u \in Users : ChatJoin(u)
    \/ check_vip_members_start
    \/ MemberGot
    \/ MemberBanned
    \/ MemberUnbanned
    \/ check_vip_members_wake

FairVip ==
    /\ InitVip
    /\ [][NextVipOk]_vars
    /\ WF_vars(check_subscriptions_expiration_start)
    /\ WF_vars(ExpirationNoticeSent)
    /\ WF_vars(check_vip_members_start)
    /\ WF_vars(MemberGot)
    /\ WF_vars(MemberBanned)
    /\ WF_vars(MemberUnbanned)
    /\ WF_vars(check_vip_members_wake)

(***************************************************************************)
(* The two generation jobs on a fresh database, with or without a channel. *)
(***************************************************************************)
InitGen ==
    /\ VIP_CHANNEL_ID_ENV = None
    /\ setting \in {None, "-1001234"}
    /\ predictions = <<>>
    /\ subscribers = [u \in Users |-> NoRow]
    /\ now = 0
    /\ IdleRecon
    /\ IdleSub
    /\ IdleGen
    /\ evaluation = NoCall
    /\ summary = NoSummary
    /\ command = NoCommand
    /\ classification = NoClassification

NextGen ==
    \/ send_daily_predictions_start(FixtureLists, Outcomes) /\ UNCHANGED command
    \/ send_daily_predictions_sent
    \/ send_daily_predictions_paused
    \/ send_daily_predictions_multiple_sent
    \/ send_live_predictions_start(FixtureLists) /\ UNCHANGED command
    \/ send_live_predictions_sent
    \/ send_live_predictions_wake

SpecGen == InitGen /\ [][NextGen]_vars

(***************************************************************************)
(* The daily job on days of up to MaxGames league and cup matches, for     *)
(* each of which the AI has no answer or the answer with every label.      *)
(***************************************************************************)
NextDay ==
    \/ send_daily_predictions_start(FullLists,
            {o \in Outcomes : o.stats = "ok" /\ o.ai_response \in {None, FullAnswer}})
         /\ UNCHANGED command
    \/ send_daily_predictions_sent
    \/ send_daily_predictions_paused
    \/ send_daily_predictions_multiple_sent

SpecDay == InitGen /\ [][NextDay]_vars

(***************************************************************************)
(* A day on which send_daily_predictions runs once more than on the other  *)
(* days: a weekend day, with the run of 12:00 UTC before the run of 15:00  *)
(* UTC, or a day on which the admin forces a run.  Each run asks the       *)
(* provider for the matches of the day, of which there are up to MaxDay.   *)
(***************************************************************************)
InitTwice ==
    /\ VIP_CHANNEL_ID_ENV = None
    /\ setting = "-1001234"
    /\ predictions = <<>>
    /\ subscribers = [u \in Users |-> NoRow]
    /\ now = 0
    /\ IdleRecon
    /\ IdleSub
    /\ daily = IdleDaily
    /\ live = IdleLive
    /\ runs = MaxRuns + 1
    /\ delivered = [g \in Games |-> 0]
    /\ evaluation = NoCall
    /\ summary = NoSummary
    /\ command = NoCommand
    /\ classification = NoClassification

NextTwice ==
    \/ send_daily_predictions_start({ListOf(1..n) : n \in 0..MaxDay},
            {o \in Outcomes : o.stats = "ok" /\ o.ai_response \in {None, FullAnswer}})
         /\ UNCHANGED command
    \/ send_daily_predictions_sent
    \/ send_daily_predictions_paused
    \/ send_daily_predictions_multiple_sent

SpecTwice == InitTwice /\ [][NextTwice]_vars

(***************************************************************************)
(* evaluate_prediction on each text and each result.                       *)
(***************************************************************************)
InitEval ==
    /\ VIP_CHANNEL_ID_ENV = None
    /\ setting = None
    /\ predictions = <<>>
    /\ subscribers = [u \in Users |-> NoRow]
    /\ now = 0
    /\ IdleRecon
    /\ IdleSub
    /\ IdleGen
    /\ evaluation \in [prediction_text : EvalTexts, fixture_result : EvalResults,
                        result : {None}, again : {None}]
    /\ summary = NoSummary
    /\ command = NoCommand
    /\ classification = NoClassification

NextEval == evaluate_prediction_call

SpecEval == InitEval /\ [][NextEval]_vars

(***************************************************************************)
(* The daily summary on a store that the day before and the day left       *)
(* behind: records of either day, pending or resolved, with an odd that    *)
(* was not read (0) or was.                                                *)
(***************************************************************************)
SummaryDay == 1

SummaryRows ==
    {[fixture_id |-> 1, prediction |-> PredictionFor(1), confidence |-> 75,
      suggested_odd |-> o, result |-> r, date_added |-> d] :
        o \in {0, 150, 200}, r \in {"pending", "green", "red"},
        d \in {SummaryDay - 1, SummaryDay}}

SummaryHistories == UNION {[1..n -> SummaryRows] : n \in 0..(MaxPred + 1)}

InitSum ==
    /\ VIP_CHANNEL_ID_ENV = None
    /\ setting \in {None, "-1001234"}
    /\ predictions \in SummaryHistories
    /\ subscribers = [u \in Users |-> NoRow]
    /\ now = SummaryDay
    /\ IdleRecon
    /\ IdleSub
    /\ IdleGen
    /\ evaluation = NoCall
    /\ summary = NoSummary
    /\ command = NoCommand
    /\ classification = NoClassification

NextSum ==
    \/ send_daily_summary /\ UNCHANGED command
    \/ Tick

SpecSum == InitSum /\ [][NextSum]_vars

(***************************************************************************)
(* The admin commands, sent by any user, on a fresh database, with the     *)
(* runs they force and the data provider, at which matches come to an end. *)
(***************************************************************************)
AdminCommands ==
    {"admin_forcar_envio", "admin_jogos", "admin_estatisticas", "admin_setchannel",
     "admin_aovivo", "admin_verificar_resultados", "admin_resumo"}

InitAdmin ==
    /\ VIP_CHANNEL_ID_ENV \in {None, "-1001234"}
    /\ setting = None
    /\ predictions = <<>>
    /\ subscribers = [u \in Users |-> NoRow]
    /\ now = 0
    /\ IdleRecon
    /\ IdleSub
    /\ IdleGen
    /\ evaluation = NoCall
    /\ summary = NoSummary
    /\ command = NoCommand
    /\ classification = NoClassification

NextAdmin ==
    \/ \E name \in AdminCommands, u \in Users :
         \E args \in (IF name \in {"admin_setchannel", "admin_jogos"}
                      THEN CommandArgs ELSE {<<>>}) : command_received(name, u, args)
    \/ admin_force_send_predictions_command
    \/ admin_force_live_command
    \/ admin_force_check_results_command
    \/ admin_force_summary_command
    \/ admin_games_command
    \/ admin_stats_command
    \/ admin_setchannel_command
    \/ send_daily_predictions_sent
    \/ send_live_predictions_sent
    \/ send_live_predictions_wake
    \/ check_results_sent("admin")
    \/ check_results_wake("admin")
    \/ \E f \in Fixtures : ProviderUpdate(f, "finished")

SpecAdmin == InitAdmin /\ [][NextAdmin]_vars

(***************************************************************************)
(* classify_odd on each odd that a prediction can carry.                   *)
(***************************************************************************)
InitOdd ==
    /\ VIP_CHANNEL_ID_ENV = None
    /\ setting = None
    /\ predictions = <<>>
    /\ subscribers = [u \in Users |-> NoRow]
    /\ now = 0
    /\ IdleRecon
    /\ IdleSub
    /\ IdleGen
    /\ evaluation = NoCall
    /\ summary = NoSummary
    /\ command = NoCommand
    /\ classification \in [odd_value : OddValues, result : {<<>>}]

NextOdd == classify_odd_call

SpecOdd == InitOdd /\ [][NextOdd]_vars

(***************************************************************************)
(* The scheduler over some days, with one clock (UTC) for the schedule and *)
(* for datetime.now(): on each day send_daily_summary is due at 02:00 and  *)
(* send_daily_predictions after it, at 15:00 (on a weekend day at 12:00    *)
(* too).  `now` is the date; runs, the generation runs of the date still   *)
(* to come, tells the hours before the first of them from the hours after  *)
(* the last.                                                               *)
(***************************************************************************)
InitSchedule ==
    /\ VIP_CHANNEL_ID_ENV = "-1001234"
    /\ setting = None
    /\ predictions = <<>>
    /\ subscribers = [u \in Users |-> NoRow]
    /\ now = 0
    /\ IdleRecon
    /\ IdleSub
    /\ IdleGen
    /\ evaluation = NoCall
    /\ summary = NoSummary
    /\ command = NoCommand
    /\ classification = NoClassification

\* It is 02:00: no generation run of the date has started.
SummaryDue == runs = MaxRuns /\ daily.pc = "idle"

\* Midnight, after the runs of the day: the date changes.
Midnight ==
    /\ daily.pc = "idle"
    /\ runs = 0
    /\ now < MaxTicks
    /\ now' = now + 1
    /\ runs' = MaxRuns
    /\ UNCHANGED <<callVars, storeVars, reconVars, user_data, payments, chat, exp, vip,
                   expNotices, daily, live, delivered>>

NextSchedule ==
    \/ SummaryDue /\ send_daily_summary /\ UNCHANGED command
    \/ send_daily_predictions_start({ListOf(1..n) : n \in 0..MaxDay},
            {o \in Outcomes : o.stats = "ok" /\ o.ai_response \in {None, FullAnswer}})
         /\ UNCHANGED command
    \/ send_daily_predictions_sent
    \/ send_daily_predictions_paused
    \/ send_daily_predictions_multiple_sent
    \/ Midnight

SpecSchedule == InitSchedule /\ [][NextSchedule]_vars

(***************************************************************************)
(* The evening of a day: the records of the day, pending, with an odd that *)
(* was read or not (0); the matches end, check_results resolves the        *)
(* records and tells the channel, and send_daily_summary sums the day up.  *)
(***************************************************************************)
DayRows ==
    {[fixture_id |-> f, prediction |-> PredictionFor(f), confidence |-> 75,
      suggested_odd |-> o, result |-> "pending", date_added |-> 0] :
        f \in Fixtures, o \in {0, 150, 200}}

InitEvening ==
    /\ VIP_CHANNEL_ID_ENV = None
    /\ setting = "-1001234"
    /\ predictions \in [1..MaxPred -> DayRows]
    /\ subscribers = [u \in Users |-> NoRow]
    /\ now = 0
    /\ IdleRecon
    /\ IdleSub
    /\ IdleGen
    /\ evaluation = NoCall
    /\ summary = NoSummary
    /\ command = NoCommand
    /\ classification = NoClassification

NextEvening ==
    \/ \E f \in Fixtures : ProviderUpdate(f, "finished")
    \/ check_results_start("job") /\ UNCHANGED command
    \/ check_results_sent("job")
    \/ check_results_wake("job")
    \/ send_daily_summary /\ UNCHANGED command

SpecEvening == InitEvening /\ [][NextEvening]_vars

(***************************************************************************)
(* Reconciliation on a store that earlier runs of the bot left behind:     *)
(* rows inserted by add_prediction_history (result pending), among them    *)
(* rows of a migrated database, whose fixture_id is NULL (0 here).         *)
(***************************************************************************)
StoredRow(f) ==
    [fixture_id |-> f, prediction |-> PredictionFor(f), confidence |-> 75,
     suggested_odd |-> 180, result |-> "pending", date_added |-> 0]

Histories == [1..MaxPred -> {StoredRow(f) : f \in 0..NFix}]

InitRecon ==
    /\ VIP_CHANNEL_ID_ENV = None
    /\ setting \in {None, "-1001234"}
    /\ predictions \in Histories
    /\ subscribers = [u \in Users |-> NoRow]
    /\ now = 0
    /\ IdleRecon
    /\ IdleSub
    /\ IdleGen
    /\ evaluation = NoCall
    /\ summary = NoSummary
    /\ command = NoCommand
    /\ classification = NoClassification

NextRecon ==
    \/ \E w \in Runners : check_results_start(w) /\ UNCHANGED command
    \/ \E w \in Runners : check_results_sent(w)
    \/ \E w \in Runners : check_results_wake(w)
    \/ \E f \in Fixtures, s \in ProviderStates : ProviderUpdate(f, s)

\* The scheduled job and the admin's forced run may overlap.
SpecRecon == InitRecon /\ [][NextRecon]_vars

\* Runs executed one after another: a run starts only when no run is suspended.
check_results_start_alone(w) ==
    /\ \A v \in Runners : cr[v].pc = "idle"
    /\ check_results_start(w)
    /\ UNCHANGED command

NextReconSeq ==
    \/ \E w \in Runners : check_results_start_alone(w)
    \/ \E w \in Runners : check_results_sent(w)
    \/ \E w \in Runners : check_results_wake(w)
    \/ \E f \in Fixtures, s \in ProviderStates : ProviderUpdate(f, s)

SpecReconSeq == InitRecon /\ [][NextReconSeq]_vars

\* The scheduler fires check_results every 3 hours (run_repeating) and the event
\* loop resumes a suspended run: the scheduled run's steps are weakly fair.
FairRecon ==
    /\ SpecRecon
    /\ WF_vars(check_results_start("job") /\ UNCHANGED command)
    /\ WF_vars(check_results_sent("job"))
    /\ WF_vars(check_results_wake("job"))

Spec == SpecRecon

(***************************************************************************)
(* Claims on reconciliation.                                               *)
(***************************************************************************)
Resolved(k) == predictions[k].result \in {"green", "red"}
ListedIds(run) == {run.pending[j].id : j \in 1..Len(run.pending)}
\* Run w takes its list of pending rows in this step.
Starts(w) == cr[w].pc = "idle" /\ cr'[w] # cr[w]

\* C1: over check_results runs executed one after another, a row whose result
\* is green or red is not in the list of any run that starts, and its result is
\* not written again: it keeps the value first written.
C1_ResolvedNeverReevaluated ==
    [][\A k \in RowIds :
          Resolved(k) =>
            /\ predictions'[k].result = predictions[k].result
            /\ writes'[k] = writes[k]
            /\ \A w \in Runners : Starts(w) => k \notin ListedIds(cr'[w])]_vars

\* Witness of C1: a row is resolved and a run that started after that (the row
\* is not in its list) is under way.
C1_Witness ==
    \E k \in RowIds, w \in Runners :
        /\ Resolved(k)
        /\ cr[w].pc # "idle"
        /\ k \notin ListedIds(cr[w])

\* C3 (as claimed): also when the admin's forced run overlaps the scheduled
\* run, each row's result is written at most once, and that write changes it
\* from pending to green or red.
C3_WrittenAtMostOnce ==
    [][\A k \in RowIds :
          writes'[k] # writes[k] =>
            /\ writes[k] = 0
            /\ predictions[k].result = "pending"
            /\ predictions'[k].result \in {"green", "red"}]_vars

\* C9 (as claimed): a provider query that raises does not stop the run: when a
\* run is over, every row of its list that has a fixture id was queried.
C9_RaiseDoesNotStopRun ==
    \A w \in Runners :
        cr[w].pc = "idle" =>
            \A j \in 1..Len(cr[w].pending) :
                cr[w].pending[j].fixture_id # 0 => cr[w].pending[j].id \in cr[w].queried

\* C10 (as claimed): under fair repetition of check_results, a pending row with
\* a fixture id whose fixture the provider reports finished is eventually green
\* or red, whatever the provider does on the other rows' fixtures.
C10_TerminalEventuallyResolved ==
    \A k \in 1..MaxPred :
        (/\ predictions[k].result = "pending"
         /\ predictions[k].fixture_id # 0
         /\ provider[predictions[k].fixture_id] = "finished")
        ~> Resolved(k)

\* The fixture of row k is over at the provider, with a terminal status.
FixtureOver(k) ==
    /\ predictions[k].fixture_id \in Fixtures
    /\ provider[predictions[k].fixture_id] = "finished"
    /\ get_fixture_result(provider, predictions[k].fixture_id).status_short
           \in {"FT", "AET", "PEN"}

\* C11: a row's result changes from pending only in a step of a check_results
\* run that has just queried the row's fixture, and only when the provider
\* returns a result whose status is FT, AET or PEN; a row whose fixture has no
\* result, or another status, stays pending, and a notification is delivered
\* only for a row that was resolved that way.
C11_ResolvedOnlyOnTerminal ==
    [][\A k \in RowIds :
          /\ (predictions[k].result = "pending" /\ predictions'[k].result # "pending") =>
                /\ FixtureOver(k)
                /\ \E w \in Runners :
                      /\ cr'[w] # cr[w]
                      /\ k \in cr'[w].queried
                      /\ cr'[w].pending[cr'[w].i].id = k
          /\ notified'[k] # notified[k] => Resolved(k) /\ FixtureOver(k)]_vars

\* A run resolved one row and announced it after it had queried another row,
\* whose fixture is not over (no result, or in play) and which stays pending.
C11_Witness ==
    \E w \in Runners, k, j \in RowIds :
        /\ cr[w].pc = "sleep"
        /\ Resolved(k) /\ notified[k] = 1
        /\ j \in cr[w].queried
        /\ predictions[j].result = "pending"
        /\ ~FixtureOver(j)

\* C12: a row without a fixture id stays pending, and no run ever queries
\* the provider for it, writes its result or announces it.
C12_NoFixtureIdNeverTouched ==
    \A k \in RowIds :
        predictions[k].fixture_id = 0 =>
            /\ predictions[k].result = "pending"
            /\ writes[k] = 0
            /\ notified[k] = 0
            /\ \A w \in Runners : k \notin cr[w].queried

\* A run went past a row without a fixture id and resolved a later row.
C12_Witness ==
    \E w \in Runners :
        /\ cr[w].pc = "sleep"
        /\ \E j \in 1..(cr[w].i - 1) :
              /\ cr[w].pending[j].fixture_id = 0
              /\ predictions[cr[w].pending[j].id].result = "pending"
(***************************************************************************)
(* Claims about the expiration job (SpecExp).                              *)
(***************************************************************************)
Expired(u) == HasRow(u) /\ subscribers[u].status = "expired"
Active(u) == HasRow(u) /\ subscribers[u].status = "active"
ListedUsers(run) == {run.active[j].user_id : j \in 1..Len(run.active)}

\* A step that starts a run of check_subscriptions_expiration.
ExpirationStarts == exp.pc = "idle" /\ exp' # exp

\* C4: a run of check_subscriptions_expiration does not list a subscriber
\* that is already expired and leaves that row as it is; a run that starts
\* at the time of the run before it ends at once, without a row changed or a
\* notice sent; and no subscriber is ever sent more than one expiration notice.
C4_SecondRunChangesNothing ==
    [][ /\ \A u \in Users : expNotices'[u] <= 1
        /\ ExpirationStarts =>
             \A u \in Users : Expired(u) =>
                 subscribers'[u] = subscribers[u] /\ u \notin ListedUsers(exp')
        /\ (exp.pc = "idle" /\ exp.i > 0 /\ exp.now = now) => exp' = exp ]_vars

\* A run is under way that started when a subscriber had expired and been
\* told, and has not listed that subscriber.
C4_Witness ==
    /\ exp.pc = "send"
    /\ \E u \in Users :
         /\ Expired(u) /\ expNotices[u] = 1
         /\ exp.now > subscribers[u].end_date
         /\ u \notin ListedUsers(exp)

\* C5: every subscriber a run of check_subscriptions_expiration has come to
\* whose end_date is earlier than the run's time is expired, and when the run
\* ends so is every such subscriber of its list, whether or not the notices
\* could be sent.
C5_DueSubscribersExpired ==
    [][ /\ \A j \in 1..exp.i :
             (exp.pc = "send" /\ exp.now > exp.active[j].end_date)
                 => Expired(exp.active[j].user_id)
        /\ (exp.pc = "send" /\ exp'.pc = "idle") =>
             \A j \in 1..Len(exp.active) :
                 exp.now > exp.active[j].end_date
                     => subscribers'[exp.active[j].user_id].status = "expired" ]_vars

\* A run has ended that expired a subscriber whose notice could not be sent.
C5_Witness ==
    /\ exp.pc = "idle" /\ exp.i > 0
    /\ \E u \in Users : Expired(u) /\ expNotices[u] = 0 /\ exp.now > subscribers[u].end_date

(***************************************************************************)
(* Claims about the membership job (SpecVip).                              *)
(***************************************************************************)
\* C6: check_vip_members calls ban_chat_member only for a user who is not the
\* administrator, whom get_chat_member just reported present, and whose row
\* is not active; and a user the transport bans is neither the administrator
\* nor active at that moment.
C6_BansOnlyLapsedMembers ==
    [][ /\ (vip.pc = "get" /\ vip'.pc = "ban") =>
             /\ VipUser # ADMIN_USER_ID
             /\ chat[VipUser] \in PresentStatuses
             /\ ~Active(VipUser)
        /\ \A u \in Users : (chat[u] # "kicked" /\ chat'[u] = "kicked") =>
             u # ADMIN_USER_ID /\ ~Active(u) ]_vars

\* A ban is on its way for a user whose latest payment is approved, while
\* the administrator's own subscription has lapsed and they are in the channel.
C6_Witness ==
    /\ vip.pc = "ban"
    /\ payments[VipUser] = "approved"
    /\ Expired(ADMIN_USER_ID) /\ chat[ADMIN_USER_ID] = "member"

\* C7: when no run of check_vip_members is under way, no user is banned.
C7_NoUserLeftBanned ==
    vip.pc = "idle" => \A u \in Users : chat[u] # "kicked"

(***************************************************************************)
(* Claims about the runs of send_daily_predictions of one day (SpecTwice). *)
(***************************************************************************)
\* C34 (as claimed): over the runs of send_daily_predictions of one day, at
\* most one message of a match is delivered and at most one record of it
\* is stored.
C34_MatchSentOncePerDay ==
    \A g \in Games :
        /\ delivered[g] <= 1
        /\ Cardinality({k \in 1..Len(predictions) :
                           predictions[k].fixture_id = g /\ predictions[k].date_added = now}) <= 1

(***************************************************************************)
(* Claims about the figures of a day (SpecEvening).                        *)
(***************************************************************************)
\* The record whose GREEN or RED message run w is sending.
Sending(w) == cr[w].pending[cr[w].i]

\* C37 (as claimed): the profit that the GREEN message of a record states is
\* the profit that send_daily_summary adds for that record, whatever the
\* record's odd, 0 included.
C37_ProfitsAgree ==
    \A w \in Runners :
        (cr[w].pc = "send" /\ predictions[Sending(w).id].result = "green") =>
            green_profit(Sending(w).suggested_odd)
                = Tally(<<predictions[Sending(w).id]>>, 1, NoTally).total_profit

(***************************************************************************)
(* Claims about the schedule of the day (SpecSchedule).                    *)
(***************************************************************************)
\* The records that the run of 15:00 before this hour inserted: it ran on
\* the date before, when it is 02:00.
InsertedByRunBefore ==
    {k \in RowIds : predictions[k].date_added = now - 1}

\* The records that send_daily_summary reads at this hour: those that the
\* SELECT of get_daily_predictions_summary(today) lets through.
ReadBySummary ==
    {k \in RowIds : get_daily_predictions_summary(<<predictions[k]>>, now) # <<>>}

\* C38 (as claimed): when send_daily_summary is due at 02:00, the records it
\* reads for its totals include every record that the run of
\* send_daily_predictions of 15:00 before it inserted.
C38_SummaryCoversRunBefore ==
    SummaryDue => InsertedByRunBefore \subseteq ReadBySummary

(***************************************************************************)
(* Claims about /status (SpecPay).                                         *)
(***************************************************************************)
\* This step is the handling of a /status of user u.
StatusOf(u) == command' # command /\ command'.name = "status" /\ command'.user = u

\* C33 (as claimed): a /status of a user whose row is expired and whose new
\* payment the provider reports approved leaves the user an active
\* subscriber.
C33_ExpiredRenewsOnApproved ==
    [][\A u \in Users :
          (StatusOf(u) /\ Expired(u) /\ payments[u] = "approved")
              => Active(u)']_vars

\* C35: /status makes an invite link for a user only in a step in which the
\* user's row is active, or in which the provider reports the user's payment
\* approved and the row is created; for a user who has no row after the
\* step, or whose row is expired, no link is asked for.
C35_LinkOnlyForActive ==
    [][\A u \in Users :
          StatusOf(u) =>
            /\ command'.link = "invite_link" =>
                  \/ Active(u)
                  \/ ~HasRow(u) /\ payments[u] = "approved" /\ Active(u)'
            /\ (~HasRow(u)' \/ Expired(u)') => command'.link = ""]_vars

\* A user whose row is expired and whose new payment is approved was just
\* answered without a link, after a user without a row got one on approval.
C35_Witness ==
    /\ command.name = "status" /\ command.reply = "inactive" /\ command.link = ""
    /\ Expired(command.user) /\ payments[command.user] = "approved"
    /\ \E v \in Users : Active(v) /\ subscribers[v].start_date = now /\ payments[v] = "approved"

\* C36 (as claimed): every /status ends with a reply and no error, whatever
\* the payment provider answers, and with the provider unavailable no row
\* is created.
C36_StatusAlwaysReplies ==
    [][\A u \in Users :
          StatusOf(u) =>
            /\ ~command'.raised /\ command'.reply # ""
            /\ ~HasRow(u) /\ HasRow(u)' => payments[u] = "approved"]_vars

(***************************************************************************)
(* Claims about both subscription jobs with the transport working          *)
(* (FairVip).                                                              *)
(***************************************************************************)
\* The subscription of u has ended and u is in the channel.
LapsedMember(u) == HasRow(u) /\ now > subscribers[u].end_date /\ chat[u] = "member"

\* u comes to be expired and out of the channel with the ban lifted; only
\* unban_chat_member, after a ban, takes a member there.
Removed(u) == LapsedMember(u) ~> (Expired(u) /\ chat[u] = "left")

\* C31, as stated: every subscriber whose end_date has passed and who is a
\* member of the channel is eventually expired and then banned and unbanned.
C31_EveryLapsedMemberRemoved == \A u \in Users : Removed(u)

\* C31, amended: every subscriber other than the administrator whose
\* end_date has passed and who is a member of the channel is eventually
\* expired and then banned, and the ban is then lifted.
C31_LapsedMemberRemoved == \A u \in Users \ {ADMIN_USER_ID} : Removed(u)

\* The ban of a subscriber is about to be lifted whom the expiration job
\* expired and told, in a run of the membership job that listed them as expired.
C31_Witness ==
    /\ vip.pc = "unban"
    /\ chat[VipUser] = "kicked"
    /\ Expired(VipUser) /\ expNotices[VipUser] = 1
    /\ VipUser \notin vip.active

(***************************************************************************)
(* Claims about the generation jobs (SpecGen).                             *)
(***************************************************************************)
\* The number of stored records of match g.
Stored(g) == Cardinality({k \in 1..Len(predictions) : predictions[k].fixture_id = g})

\* C2: there are never more records of a match than prediction messages of
\* that match delivered to the channel, and a step that adds a record is the
\* return of the send_message of that record's match.
C2_StoredOnlyAfterSent ==
    [][ /\ \A g \in Games : Stored(g)' <= delivered'[g]
        /\ Len(predictions') > Len(predictions) =>
             LET row == predictions'[Len(predictions')]
             IN /\ Len(predictions') = Len(predictions) + 1
                /\ delivered'[row.fixture_id] = delivered[row.fixture_id] + 1
                /\ \/ daily.pc = "send" /\ daily.all[daily.i].match_id = row.fixture_id
                   \/ live.pc = "send" /\ live.turns[live.i].match_id = row.fixture_id ]_vars

\* A daily run has had the sends of its three predictions return: one was
\* delivered and is recorded, one raised and is not.
C2_Witness ==
    /\ daily.pc = "pause"
    /\ \E j \in 1..3 : delivered[daily.all[j].match_id] = 1 /\ Stored(daily.all[j].match_id) = 1
    /\ \E j \in 1..3 : delivered[daily.all[j].match_id] = 0 /\ Stored(daily.all[j].match_id) = 0

(***************************************************************************)
(* Claims about one run of send_daily_predictions.                         *)
(***************************************************************************)
DailyRuns == daily.pc # "idle"
DayMatches == Members(daily.fixtures)
CandidateIds == {daily.all[j].match_id : j \in 1..Len(daily.all)}
\* The AI returned a text for match g of the day.
Answered(g) == daily.outcome[g].stats = "ok" /\ Truthy(daily.outcome[g].ai_response)
\* The statistics calls for match g raised, or the AI returned None.
Failed(g) == daily.outcome[g].stats = "error" \/ ~Truthy(daily.outcome[g].ai_response)
\* Match g comes before match h in fixture-discovery order: the priority
\* leagues first, and the provider's order (the ids') within a tier.
Earlier(g, h) ==
    \/ LeagueId(g) \in PRIORITY_LEAGUES /\ LeagueId(h) \notin PRIORITY_LEAGUES
    \/ /\ (LeagueId(g) \in PRIORITY_LEAGUES) = (LeagueId(h) \in PRIORITY_LEAGUES)
       /\ g < h
ConfidenceOf(g) == (CHOOSE c \in {daily.all[j] : j \in 1..Len(daily.all)} : c.match_id = g).confidence
\* A message of match g has its place before a message of match h.
RanksBefore(g, h) ==
    \/ ConfidenceOf(g) > ConfidenceOf(h)
    \/ ConfidenceOf(g) = ConfidenceOf(h) /\ Earlier(g, h)

\* C13 (as claimed): the multiple is sent only when at least three individual
\* predictions of the run were delivered, and the three it combines are the
\* three of highest confidence among the delivered ones.
C13_MultipleOnlyAfterThreeSent ==
    daily.pc = "multiple" =>
        /\ Len(daily.sent) >= 3
        /\ \A j \in 1..3 : build_daily_multiple_message(daily.all)[j].match_id = daily.sent[j]

\* C14 (as claimed): every match of the day for which the AI returned a text
\* is a candidate of the run, and a field whose label the text does not hold
\* has its neutral value.
C14_AnsweredBecomesCandidate ==
    DailyRuns =>
        \A g \in DayMatches :
            Answered(g) =>
                \E j \in 1..Len(daily.all) :
                    LET c == daily.all[j]
                        Has(label) == Contains(daily.outcome[g].ai_response, label)
                    IN /\ c.match_id = g
                       /\ ~Has("Análise:") => c.analysis = "N/A"
                       /\ ~Has("Palpite:") => c.prediction = "N/A"
                       /\ ~Has("Confiança:") => c.confidence = 0
                       /\ ~Has("Mercado:") => c.market = "N/A"
                       /\ ~Has("Odd Sugerida:") => c.suggested_odd = 0

C16_SentInRankOrder ==
    DailyRuns =>
        /\ \A a, b \in 1..Len(daily.sent) :
              a < b => RanksBefore(daily.sent[a], daily.sent[b])
        /\ daily.pc = "send" =>
              /\ \A a \in 1..Len(daily.sent) :
                    RanksBefore(daily.sent[a], daily.all[daily.i].match_id)
              /\ \A j \in 1..(daily.i - 1) :
                    RanksBefore(daily.all[j].match_id, daily.all[daily.i].match_id)

\* The third message is being sent after two that were delivered: the first
\* of higher confidence, the second of the same confidence as the third and
\* of a priority league, with the larger id.
C16_Witness ==
    /\ daily.pc = "send" /\ daily.i = 3 /\ Len(daily.sent) = 2
    /\ daily.all[1].confidence > daily.all[2].confidence
    /\ daily.all[2].confidence = daily.all[3].confidence
    /\ daily.all[2].match_id > daily.all[3].match_id

\* C17: the number of individual messages of a run (the delivered ones and
\* the one being sent) is at most K and at most the number of candidates,
\* where K is 10 on a day of 6 or more league and cup matches and 3 on a day
\* of 5 or fewer.
C17_AtMostKSent ==
    LET messages == Len(daily.sent) + (IF daily.pc = "send" THEN 1 ELSE 0)
        K == IF Len(daily.fixtures) >= 6 THEN 10 ELSE 3
        candidates == Cardinality({g \in DayMatches :
                          Answered(g) /\ Parsed[daily.outcome[g].ai_response].kind = "answer"})
    IN DailyRuns => messages <= K /\ messages <= candidates

\* On a day of 6 matches more than 3 messages were delivered, on the way to
\* the multiple.
C17_Witness ==
    /\ daily.pc = "pause"
    /\ Len(daily.fixtures) = 6
    /\ Len(daily.sent) > 3

(***************************************************************************)
(* Claims about evaluate_prediction (SpecEval).  Each text is read here by *)
(* hand: the rule that comes first among those it matches, in the claimed  *)
(* order, with that rule's line (num / scale) or team.                     *)
(***************************************************************************)
Reading(rule, num, scale, team) == [rule |-> rule, num |-> num, scale |-> scale, team |-> team]

FirstRule ==
    ("Over 2.5 gols" :> Reading("over", 25, 10, "")) @@
    ("over 2" :> Reading("over", 2, 1, "")) @@
    ("Over 1,5 - Vitória do Arsenal" :> Reading("over", 15, 10, "")) @@
    ("Over 2.5 e ambas marcam" :> Reading("over", 25, 10, "")) @@
    ("Empate com over 0.5" :> Reading("over", 5, 10, "")) @@
    ("Under 3.5 e over 1.5" :> Reading("over", 15, 10, "")) @@
    ("Under 2.5 gols" :> Reading("under", 25, 10, "")) @@
    ("under 3" :> Reading("under", 3, 1, "")) @@
    ("Under 1.5 - empate - Chelsea" :> Reading("under", 15, 10, "")) @@
    ("Ambas marcam e under 4.5" :> Reading("under", 45, 10, "")) @@
    ("Ambas marcam" :> Reading("both_score", 0, 1, "")) @@
    ("BTTS sim" :> Reading("both_score", 0, 1, "")) @@
    ("Ambas marcam - empate" :> Reading("both_score", 0, 1, "")) @@
    ("Ambas marcam - Vitória do Chelsea" :> Reading("both_score", 0, 1, "")) @@
    ("Ambas marcam: não" :> Reading("not_both_score", 0, 1, "")) @@
    ("BTTS - No" :> Reading("not_both_score", 0, 1, "")) @@
    ("Empate" :> Reading("draw", 0, 1, "")) @@
    ("Draw - Arsenal" :> Reading("draw", 0, 1, "")) @@
    ("Vitória do Chelsea" :> Reading("team", 0, 1, "Chelsea")) @@
    ("Arsenal para vencer" :> Reading("team", 0, 1, "Arsenal")) @@
    ("Torino" :> Reading("team", 0, 1, "Torino")) @@
    ("Vitória do Milan" :> Reading("team", 0, 1, "AC Milan")) @@
    ("Vitória" :> Reading("none", 0, 1, "")) @@
    ("Arsenal ou Chelsea" :> Reading("none", 0, 1, "")) @@
    ("xyzzy" :> Reading("none", 0, 1, ""))

\* The both-score texts, with the form they have: only two of them negate.
BothScoreForm ==
    ("Ambas marcam" :> "affirmative") @@
    ("BTTS sim" :> "affirmative") @@
    ("Ambas marcam - empate" :> "affirmative") @@
    ("Ambas marcam - Vitória do Chelsea" :> "affirmative") @@
    ("Ambas marcam - Torino" :> "affirmative") @@
    ("Ambas marcam: não" :> "negated") @@
    ("BTTS - No" :> "negated")

Called == evaluation.result # None
HomeGoals == IF evaluation.fixture_result.home_goals = NoGoals THEN 0
             ELSE evaluation.fixture_result.home_goals
AwayGoals == IF evaluation.fixture_result.away_goals = NoGoals THEN 0
             ELSE evaluation.fixture_result.away_goals
GreenIff(b) == evaluation.result = (IF b THEN "green" ELSE "red")

\* C18: the rules are applied in the order over, under, both-score, draw,
\* win keyword with one team, bare team name, and the first that matches
\* decides: a text with an over or under line is decided by the total of
\* goals alone, whatever else it holds; a both-score text by whether both
\* sides scored, also when it names a draw or a team; a draw text by the
\* equality of the goals, also when it names a team; a text that names one
\* team of the match by that team's win; any other text is red.
C18_FirstMatchingRuleDecides ==
    (Called /\ evaluation.prediction_text \in DOMAIN FirstRule) =>
        LET r == FirstRule[evaluation.prediction_text]
            home == evaluation.fixture_result.home_team
            away == evaluation.fixture_result.away_team
        IN CASE r.rule = "over" -> GreenIff((HomeGoals + AwayGoals) * r.scale > r.num)
             [] r.rule = "under" -> GreenIff((HomeGoals + AwayGoals) * r.scale < r.num)
             [] r.rule = "both_score" -> GreenIff(HomeGoals > 0 /\ AwayGoals > 0)
             [] r.rule = "not_both_score" -> GreenIff(HomeGoals = 0 \/ AwayGoals = 0)
             [] r.rule = "draw" -> GreenIff(HomeGoals = AwayGoals)
             [] r.rule = "team" ->
                   GreenIff(\/ r.team = home /\ HomeGoals > AwayGoals
                            \/ r.team = away /\ AwayGoals > HomeGoals)
             [] r.rule = "none" -> GreenIff(FALSE)

\* A text with an over line and a draw keyword was found red on a draw
\* without goals.
C18_Witness ==
    /\ Called
    /\ evaluation.prediction_text = "Empate com over 0.5"
    /\ HomeGoals = 0 /\ AwayGoals = 0
    /\ evaluation.result = "red"

\* C19: on a text with an over line N the result is green exactly when the
\* total of goals is more than N, and on a text with an under line N (and
\* no over line) exactly when it is less than N: a total equal to N is red.
C19_OverUnderByTotal ==
    (Called /\ evaluation.prediction_text \in DOMAIN FirstRule) =>
        LET r == FirstRule[evaluation.prediction_text]
            total == HomeGoals + AwayGoals
        IN /\ r.rule = "over" =>
                /\ total * r.scale > r.num => evaluation.result = "green"
                /\ total * r.scale <= r.num => evaluation.result = "red"
           /\ r.rule = "under" =>
                /\ total * r.scale < r.num => evaluation.result = "green"
                /\ total * r.scale >= r.num => evaluation.result = "red"

\* "over 2" was found red on a total of 2 goals.
C19_Witness ==
    /\ Called
    /\ evaluation.prediction_text = "over 2"
    /\ HomeGoals + AwayGoals = 2
    /\ evaluation.result = "red"

\* C20 (as claimed): on a both-score text without over or under line, the
\* result is green for the affirmative form exactly when both sides scored,
\* and for the negated form exactly when a side did not score; a text that
\* does not negate the phrase is read as affirmative.
C20_BothScoreForms ==
    (Called /\ evaluation.prediction_text \in DOMAIN BothScoreForm) =>
        IF BothScoreForm[evaluation.prediction_text] = "negated"
        THEN GreenIff(HomeGoals = 0 \/ AwayGoals = 0)
        ELSE GreenIff(HomeGoals > 0 /\ AwayGoals > 0)

\* The texts without over or under line, both-score phrase or draw keyword,
\* each with the teams it names.
NamedTeams ==
    ("Vitória do Chelsea" :> {"Chelsea"}) @@
    ("Arsenal para vencer" :> {"Arsenal"}) @@
    ("Torino" :> {"Torino"}) @@
    ("Vitória do Milan" :> {"AC Milan"}) @@
    ("Arsenal ou Chelsea" :> {"Arsenal", "Chelsea"}) @@
    ("Vitória" :> {}) @@
    ("xyzzy" :> {})

\* The teams of the match that the text of the call names.
NamedOfMatch ==
    NamedTeams[evaluation.prediction_text]
        \cap {evaluation.fixture_result.home_team, evaluation.fixture_result.away_team}

\* C21: on a text that no earlier rule matches and that names exactly one
\* team of the match, with a win keyword or without, the result is green
\* exactly when that team scored more goals than the other: red on a draw.
C21_OneTeamNamedWinsByGoals ==
    (/\ Called
     /\ evaluation.prediction_text \in DOMAIN NamedTeams
     /\ Cardinality(NamedOfMatch) = 1) =>
        IF evaluation.fixture_result.home_team \in NamedOfMatch
        THEN GreenIff(HomeGoals > AwayGoals)
        ELSE GreenIff(AwayGoals > HomeGoals)

\* "Vitória do Milan" was found green on a win of AC Milan, the away side.
C21_Witness ==
    /\ Called
    /\ evaluation.prediction_text = "Vitória do Milan"
    /\ evaluation.fixture_result.away_team = "AC Milan"
    /\ AwayGoals > HomeGoals
    /\ evaluation.result = "green"

C27_PauseBetweenQueries ==
    [][ \A w \in Runners :
          Cardinality(cr'[w].queried \ cr[w].queried) <= 1 ]_vars

\* C32 (as claimed): also when the admin's forced run overlaps the scheduled
\* run while one of them is suspended in its loop, at most one GREEN or RED
\* message of a record is ever delivered to the channel.
C32_NotifiedAtMostOnce == \A k \in RowIds : notified[k] <= 1

(***************************************************************************)
(* Claims about the subscribers table (SpecVip).  The table is keyed by    *)
(* user_id (INTEGER PRIMARY KEY), which the model renders as a map from    *)
(* user_id to the row; the claims read it through its SELECTs.             *)
(***************************************************************************)
\* The rows of user u in what SELECT user_id, status FROM subscribers lists.
ListedRowsOf(rows, u) ==
    LET listed == get_all_subscribers(rows)
    IN {k \in DOMAIN listed : listed[k].user_id = u}

C25_ActiveOnlyOnApprovedPayment ==
    [][ \A u \in Users :
          /\ (\/ subscribers[u] = NoRow /\ subscribers'[u] # NoRow
              \/ /\ subscribers[u] # NoRow /\ subscribers'[u] # NoRow
                 /\ subscribers[u].status # "active" /\ subscribers'[u].status = "active")
                => /\ user_data[u].current_payment_id = u
                   /\ payments[user_data[u].current_payment_id] = "approved"
          /\ subscribers'[u] # NoRow => user_data'[u].current_payment_id = u ]_vars

\* A user has an active row and an approved payment, beside a user whose
\* payment is pending or was rejected and who has no row.
C25_Witness ==
    \E u, v \in Users :
        /\ HasRow(u) /\ subscribers[u].status = "active" /\ payments[u] = "approved"
        /\ ~HasRow(v) /\ payments[v] \in {"pending", "rejected"}

\* C28 (SpecExp): a step that sets a subscriber's status to expired finds
\* in the table an end_date of that subscriber earlier than the time of the
\* step, also when the clock moved on and payments were confirmed while the
\* run waited for a send.
C28_ExpiresOnlyLapsed ==
    [][ \A u \in Users :
          (/\ subscribers[u] # NoRow /\ subscribers'[u] # NoRow
           /\ subscribers[u].status # "expired" /\ subscribers'[u].status = "expired")
             => subscribers[u].end_date < now ]_vars

\* While a run waits for the send of a notice to a subscriber it expired,
\* another user's payment was confirmed: that user is active, is not in
\* the run's list, and the end date is still to come.
C28_Witness ==
    /\ exp.pc = "send"
    /\ Expired(exp.active[exp.i].user_id)
    /\ \E v \in Users :
         /\ Active(v) /\ v \notin ListedUsers(exp)
         /\ subscribers[v].start_date >= exp.now
         /\ subscribers[v].end_date > now

(***************************************************************************)
(* Claims about the admin commands and the runs they force (SpecAdmin).    *)
(***************************************************************************)
\* C26: while the command being handled comes from a user who is not the
\* administrator, the one thing the bot does is reply that the user has no
\* permission: no setting is written, no run of a job starts or goes on,
\* no record is written and no message reaches the channel.
C26_NonAdminIsRejected ==
    [][ (command.pc = "received" /\ command.user # ADMIN_USER_ID) =>
          /\ command' # command =>
                command' = [command EXCEPT !.pc = "handled", !.reply = "denied"]
          /\ UNCHANGED <<storeVars, cr, writes, notified, subVars, genVars,
                         summary, evaluation>> ]_vars

\* A user who is not the administrator sent /admin_setchannel with a well
\* formed channel id and was refused; the setting is as it was.
C26_Witness ==
    /\ command.name = "admin_setchannel" /\ command.args = <<"-1001234">>
    /\ command.user # ADMIN_USER_ID
    /\ command.pc = "handled" /\ command.reply = "denied"
    /\ setting = None

\* C29: every record's result is pending, green or red; a step that adds a
\* record adds it at the end, pending; and no step of a job or command
\* removes a record or changes a field of one other than its result.
C29_RecordsOnlyResolved ==
    [][ /\ Len(predictions') >= Len(predictions)
        /\ \A k \in 1..Len(predictions) :
              predictions'[k] = [predictions[k] EXCEPT !.result = predictions'[k].result]
        /\ \A k \in (Len(predictions) + 1)..Len(predictions') :
              predictions'[k].result = "pending"
        /\ \A k \in 1..Len(predictions') :
              predictions'[k].result \in {"pending", "green", "red"} ]_vars

\* A record that a forced run created was resolved by a forced check, and
\* is otherwise as the answer of the AI had it.
C29_Witness ==
    /\ Len(predictions) > 0
    /\ predictions[1].result \in {"green", "red"}
    /\ predictions[1].confidence = Parsed[FullAnswer].confidence
    /\ writes[1] = 1

(***************************************************************************)
(* Claims about classify_odd (SpecOdd).                                    *)
(***************************************************************************)
\* The odds of OtherOdds that are numbers, in hundredths.
OddRead ==
    ("0" :> 0) @@ ("1" :> 100) @@ ("1.5" :> 150) @@ ("2" :> 200) @@ ("2.0" :> 200) @@
    ("3.7" :> 370) @@ ("10" :> 1000) @@ ("-1" :> (0 - 100))

\* The number that a value stands for, in hundredths; 0 for a value that
\* is no number.
OddOf(v) ==
    LET written == {h \in 0..MaxOdd : OddText(h) = v}
    IN IF written # {} THEN CHOOSE h \in written : TRUE
       ELSE IF v \in DOMAIN OddRead THEN OddRead[v]
       ELSE 0

Classified == classification.result # <<>>

\* C30: an odd of at most 1.50 is given the low-risk band and 5%, one above
\* 1.50 and at most 2.00 the medium band and 3%, one above 2.00 the high
\* band and 1-2%; an odd of 0 and a value that is no number are given the
\* low-risk band and 5%.  Each value gets one band, with that band's stake.
C30_OddBands ==
    Classified =>
        LET odd == OddOf(classification.odd_value)
        IN /\ odd <= 150 => classification.result = <<"SEGURA", "5%">>
           /\ (odd > 150 /\ odd <= 200) => classification.result = <<"MÉDIA", "3%">>
           /\ odd > 200 => classification.result = <<"ALTA", "1-2%">>

\* An odd of 1.50 was given the low-risk band, and one of 2.00 would be
\* given the medium band.
C30_Witness ==
    /\ classification.odd_value = "1.50"
    /\ classification.result = <<"SEGURA", "5%">>
    /\ classify_odd("2.00") = <<"MÉDIA", "3%">>

(***************************************************************************)
(* Claims about the daily summary (SpecSum).                               *)
(***************************************************************************)
\* The records created on the day of the clock, and those of them with a
\* given result.
DayRecords == {k \in 1..Len(predictions) : predictions[k].date_added = now}
OfResult(r) == {k \in DayRecords : predictions[k].result = r}

\* The profit of a set of resolved records: odd - 1 on a green, -1 on a red.
RECURSIVE ProfitOf(_)
ProfitOf(S) ==
    IF S = {} THEN 0
    ELSE LET k == CHOOSE x \in S : TRUE
         IN (IF predictions[k].result = "green"
             THEN predictions[k].suggested_odd - 100 ELSE 0 - 100) + ProfitOf(S \ {k})

\* r is num / den rounded to an integer.
Nearest(r, num, den) ==
    /\ 2 * (r * den - num) <= den
    /\ 2 * (num - r * den) <= den

\* C23: a summary that is delivered reports the numbers of green, red and
\* pending records of the day, which add up to the number of records
\* created that day; a win rate of greens over greens plus reds; the profit
\* summed over the resolved records (odd - 1 on a green, -1 on a red); and
\* an ROI of that profit over the number of resolved records.  Pending
\* records add nothing to profit or stake.
C23_SummaryFigures ==
    [][ summary' # summary =>
          LET greens == Cardinality(OfResult("green"))
              reds == Cardinality(OfResult("red"))
              profit == ProfitOf(OfResult("green") \cup OfResult("red"))
          IN /\ summary'.greens = greens
             /\ summary'.reds = reds
             /\ summary'.pending_count = Cardinality(OfResult("pending"))
             /\ summary'.total = Cardinality(DayRecords)
             /\ summary'.greens + summary'.reds + summary'.pending_count
                    = Cardinality(DayRecords)
             /\ summary'.total_profit = profit
             /\ greens + reds > 0 =>
                    /\ Nearest(summary'.green_pct, 100 * greens, greens + reds)
                    /\ Nearest(summary'.roi, 10 * profit, greens + reds) ]_vars

\* Two greens at odds 2.00 and 1.50 and one red, beside a pending record of
\* the day before: profit 0.50 on three units, an ROI of 16.7%, 67% greens.
C23_Witness ==
    /\ summary.greens = 2 /\ summary.reds = 1 /\ summary.pending_count = 0
    /\ summary.total_profit = 50
    /\ summary.roi = 167
    /\ summary.green_pct = 67

(***************************************************************************)
(* Claims about the jobs when no channel is configured.                    *)
(***************************************************************************)
\* get_vip_channel_id_from_db returns None: no valid numeric channel id.
NoChannelConfigured == get_vip_channel_id_from_db(setting, VIP_CHANNEL_ID_ENV) = NoChannel

\* C8 (as claimed): while no valid channel is configured no job has a side
\* effect: no prediction record is inserted or updated, no message is
\* delivered to the channel and no user is banned.
C8_NoChannelNoSideEffects ==
    [][ NoChannelConfigured =>
          /\ predictions' = predictions
          /\ notified' = notified
          /\ delivered' = delivered
          /\ \A u \in Users : chat'[u] = "kicked" => chat[u] = "kicked" ]_vars

====
